---------------------------- MODULE Spec2Model ----------------------------
(***************************************************************************)
(* The concurrent search tree of Leela Zero (UCTNode) and the descent loop *)
(* that drives it.  Floating-point quantities (priors, evals, scores) are  *)
(* modelled as exact rationals <<numerator, denominator>> in lowest terms. *)
(***************************************************************************)
EXTENDS Integers, Sequences, FiniteSets, TLC

VARIABLES nodes, th, game, nodecount, started, ghost, failed, probe

vars == <<nodes, th, game, nodecount, started, ghost, failed, probe>>

-----------------------------------------------------------------------------
(* Bounds of the model *)

\* descents started by the search driver
MaxDescents == 3
\* enter_node / leave_node calls in the single-node specification
MaxCalls == 4
\* largest statistic drawn for a snapshot in the get_eval specification
MaxStat == 4

Threads == {"t1", "t2"}
NoThread == "none"

\* board vertices of the model (FastBoard vertices are positive integers)
Vertices == {1, 2}
\* FastBoard::PASS is a negative vertex number, below every board vertex
PASS == 0 - 1

BLACK == "black"
WHITE == "white"

VIRTUAL_LOSS_COUNT == 3

-----------------------------------------------------------------------------
(* Exact rational arithmetic standing for float / double *)

Abs(x) == IF x < 0 THEN 0 - x ELSE x

RECURSIVE GCD(_, _)
GCD(a, b) == IF b = 0 THEN a ELSE GCD(b, a % b)

Rat(n, d) == LET g == GCD(Abs(n), Abs(d)) s == IF d < 0 THEN 0 - 1 ELSE 1 IN <<(s * n) \div g, (s * d) \div g>>
RInt(n) == <<n, 1>>
Zero == <<0, 1>>
One == <<1, 1>>
RAdd(a, b) == Rat(a[1] * b[2] + b[1] * a[2], a[2] * b[2])
RSub(a, b) == Rat(a[1] * b[2] - b[1] * a[2], a[2] * b[2])
RMul(a, b) == Rat(a[1] * b[1], a[2] * b[2])
RDiv(a, b) == Rat(a[1] * b[2], a[2] * b[1])
RLt(a, b) == a[1] * b[2] < b[1] * a[2]
RSign(a) == IF a[1] > 0 THEN 1 ELSE IF a[1] < 0 THEN 0 - 1 ELSE 0

RECURSIVE RSum(_)
RSum(s) == IF s = <<>> THEN Zero ELSE RAdd(Head(s), RSum(Tail(s)))

\* a + b * sqrt(n) > 0, decided exactly (n a natural number)
SqrtPos(a, b, n) ==
    LET sa == RSign(a)
        sb == IF n = 0 THEN 0 ELSE RSign(b)
        a2 == RMul(a, a)
        b2n == RMul(RMul(b, b), RInt(n))
    IN  IF sa >= 0 /\ sb >= 0 THEN sa > 0 \/ sb > 0
        ELSE IF sa <= 0 /\ sb <= 0 THEN FALSE
        ELSE IF sa > 0 THEN RLt(b2n, a2)
        ELSE RLt(a2, b2n)

-----------------------------------------------------------------------------
(* UCTNode: construction and statistics *)

\* UCTNode::UCTNode(vertex, score, init_eval) with the in-class initializers
NewNode(vertex, score, init_eval) ==
    [ move |-> vertex, score |-> score, init_eval |-> init_eval,
      child_init_eval |-> Zero,
      visits |-> 0, blackevals |-> Zero, virtual_loss |-> 0,
      valid |-> TRUE, has_children |-> FALSE, is_expanding |-> FALSE,
      child_scores |-> <<>>, expanded |-> <<>>, mutex |-> NoThread ]

\* UCTNode::get_all_stats
get_all_stats(n) ==
    [ visits |-> n.visits, blackevals |-> n.blackevals, score |-> n.score,
      init_eval |-> n.init_eval, virtual_loss |-> n.virtual_loss ]

\* get_eval leaving the virtual losses out of White's numerator
GetEvalPlain(s, tomove) ==
    LET total_visits == s.visits + s.virtual_loss
        score == IF total_visits > 0 THEN RDiv(s.blackevals, RInt(total_visits)) ELSE s.init_eval
    IN  IF tomove = WHITE THEN RSub(One, score) ELSE score

\* UCTNode::NodeStats::get_eval.  total_visits is a uint32_t; the model applies
\* get_eval only to statistics whose sum is a small natural number, where the
\* conversion changes nothing
get_eval(s, tomove) ==
    LET total_visits == s.visits + s.virtual_loss
        blackeval == IF tomove = WHITE THEN RAdd(s.blackevals, RInt(s.virtual_loss)) ELSE s.blackevals
        score == IF total_visits > 0 THEN RDiv(blackeval, RInt(total_visits)) ELSE s.init_eval
    IN  IF tomove = WHITE THEN RSub(One, score) ELSE score

RMax(a, b) == IF RLt(a, b) THEN b ELSE a

\* enter_node taking the larger of the visits and, separately, of the eval sums
EnterBodyEachMax(n, visits, eval_sum) ==
    [n EXCEPT !.visits = IF visits > n.visits THEN visits ELSE n.visits,
              !.blackevals = RMax(n.blackevals, eval_sum),
              !.virtual_loss = n.virtual_loss + VIRTUAL_LOSS_COUNT]

\* the body of UCTNode::enter_node, run under the node mutex
EnterBody(n, visits, eval_sum) ==
    LET n1 == IF visits > n.visits THEN [n EXCEPT !.visits = visits, !.blackevals = eval_sum] ELSE n
    IN  [n1 EXCEPT !.virtual_loss = n.virtual_loss + VIRTUAL_LOSS_COUNT]

\* leave_node forgetting to add the visits
LeaveBodyNoVisits(n, visits, eval_sum) ==
    [n EXCEPT !.blackevals = RAdd(n.blackevals, eval_sum),
              !.virtual_loss = n.virtual_loss - VIRTUAL_LOSS_COUNT]

\* the body of UCTNode::leave_node, run under the node mutex
LeaveBody(n, visits, eval_sum) ==
    [n EXCEPT !.visits = n.visits + visits,
              !.blackevals = RAdd(n.blackevals, eval_sum),
              !.virtual_loss = n.virtual_loss - VIRTUAL_LOSS_COUNT]

-----------------------------------------------------------------------------
(* Sequences *)

At(s, i) == s[i + 1]
Last(s) == s[Len(s)]
Front(s) == SubSeq(s, 1, Len(s) - 1)
Reverse(s) == [i \in 1..Len(s) |-> s[Len(s) + 1 - i]]
Swap(s, i, j) == [s EXCEPT ![i + 1] = s[j + 1], ![j + 1] = s[i + 1]]
SeqRange(s) == {s[i] : i \in 1..Len(s)}

RECURSIVE SeqsOver(_)
\* the orderings of a finite set, as sequences
SeqsOver(S) == IF S = {} THEN {<<>>} ELSE UNION {{<<x>> \o r : r \in SeqsOver(S \ {x})} : x \in S}

-----------------------------------------------------------------------------
(* GameState: the position reached by a path of moves from the root *)

Root == <<>>

RECURSIVE TrailingPasses(_)
TrailingPasses(path) == IF path = <<>> \/ Last(path) # PASS THEN 0 ELSE 1 + TrailingPasses(Front(path))

\* GameState::get_passes: consecutive passes ending the game record
get_passes(path) == IF TrailingPasses(path) = Len(path) THEN game.passes + Len(path) ELSE TrailingPasses(path)

\* FastBoard::get_to_move: the root position has Black to move
get_to_move(path) == IF Len(path) % 2 = 0 THEN BLACK ELSE WHITE

\* FastBoard::get_square(v) == EMPTY: no stone was played on v
EmptyVertices(path) == Vertices \ SeqRange(path)

\* FastState::is_move_legal: PASS is always legal; a vertex must be empty and
\* not forbidden (suicide, ko), the forbidden set being an input
is_move_legal(path, illegal, vertex) == vertex = PASS \/ (vertex \in EmptyVertices(path) /\ vertex \notin illegal)

-----------------------------------------------------------------------------
(* Network::get_scored_moves seen from the search: the evaluator's outputs *)

Moves == Vertices \cup {PASS}

\* softmax outputs the model draws for one move
PriorChoices == {Rat(1, 4), Rat(1, 2)}
\* winrates (for the side to move) the model draws
WinrateChoices == {Zero, One}

\* the (prior, vertex) list for policy outputs priors: the empty squares in
\* rotated index order, then PASS; nothing at all unless the board is 19x19
RawNetlists(path, priors) ==
    IF game.boardsize # 19 THEN {<<>>}
    ELSE {[i \in 1..Len(order) + 1 |-> IF i <= Len(order) THEN <<priors[order[i]], order[i]>> ELSE <<priors[PASS], PASS>>] :
             order \in SeqsOver(EmptyVertices(path))}

\* the winrate that comes with it: a default-constructed result has none
RawWinrate(winrate) == IF game.boardsize # 19 THEN Zero ELSE winrate

-----------------------------------------------------------------------------
(* UCTNode::create_children and UCTNode::link_nodelist *)

\* a comparison of scored nodes that looks at the prior alone
ScoredLessByPrior(a, b) == RLt(a[1], b[1])

\* operator< of Network::scored_node, a std::pair<float, int>
ScoredLess(a, b) == RLt(a[1], b[1]) \/ (a[1] = b[1] /\ a[2] < b[2])

RECURSIVE InsertStable(_, _)
\* insert x behind every element that is not greater than x
InsertStable(sorted, x) ==
    IF sorted = <<>> THEN <<x>>
    ELSE IF ScoredLess(x, Head(sorted)) THEN <<x>> \o sorted
    ELSE <<Head(sorted)>> \o InsertStable(Tail(sorted), x)

RECURSIVE StableSort(_)
\* std::stable_sort, ascending
StableSort(s) == IF s = <<>> THEN <<>> ELSE InsertStable(StableSort(Front(s)), Last(s))

\* std::stable_sort(rbegin(nodelist), rend(nodelist))
SortNodelist(nodelist) == Reverse(StableSort(Reverse(nodelist)))

\* the moves of the raw list that pass state.is_move_legal, in order
FilterLegal(raw, path, illegal) == SelectSeq(raw, LAMBDA node : is_move_legal(path, illegal, node[2]))

\* legal_sum
LegalSum(nodelist) == RSum([i \in 1..Len(nodelist) |-> nodelist[i][1]])

\* the legal moves installed with the priors the evaluator gave
NormalizeNever(nodelist) == nodelist

\* re-normalize after removing illegal moves, unless the sum is 0 or denormal
Normalize(nodelist) ==
    IF RLt(Zero, LegalSum(nodelist))
    THEN [i \in 1..Len(nodelist) |-> <<RDiv(nodelist[i][1], LegalSum(nodelist)), nodelist[i][2]>>]
    ELSE nodelist

\* net_eval left as the evaluator gave it, for the side to move
NetEvalSideToMove(path, winrate) == winrate

\* net_eval: the evaluator's winrate turned to Black's point of view
NetEval(path, winrate) == IF get_to_move(path) = WHITE THEN RSub(One, winrate) ELSE winrate

\* link_nodelist clearing m_is_expanding once the children are installed
LinkBodyClearsFlag(n, nodelist, init_eval) ==
    [n EXCEPT !.child_scores = n.child_scores \o [i \in 1..Len(nodelist) |-> <<nodelist[i][2], nodelist[i][1]>>],
              !.child_init_eval = init_eval,
              !.has_children = TRUE,
              !.is_expanding = FALSE]

\* the locked part of link_nodelist applied to node n
LinkBody(n, nodelist, init_eval) ==
    [n EXCEPT !.child_scores = n.child_scores \o [i \in 1..Len(nodelist) |-> <<nodelist[i][2], nodelist[i][1]>>],
              !.child_init_eval = init_eval,
              !.has_children = TRUE]

-----------------------------------------------------------------------------
(* UCTNode::uct_select_child, child_get_stats, expand *)

\* UCTNode::child_get_stats(child) of node id in tree ns
child_get_stats(ns, id, child) ==
    IF child < Len(ns[id].expanded)
    THEN get_all_stats(ns[At(ns[id].expanded, child)])
    ELSE [ visits |-> 0, blackevals |-> Zero, score |-> At(ns[id].child_scores, child)[2],
           init_eval |-> ns[id].child_init_eval, virtual_loss |-> 0 ]

RECURSIVE CountVisits(_, _, _, _)
\* the loop over m_expanded from index i on, parentvisits so far being sum
CountVisits(ns, id, i, sum) ==
    IF i >= Len(ns[id].expanded) THEN sum
    ELSE IF ~ns[At(ns[id].expanded, i)].valid THEN CountVisits(ns, id, i + 1, sum)
    ELSE CountVisits(ns, id, i + 1, sum + ns[At(ns[id].expanded, i)].visits)

\* parentvisits: the visits of the expanded children that are valid
ParentVisits(ns, id) == CountVisits(ns, id, 0, 0)

\* value = winrate + puct, kept as <<a, b>> standing for a + b * sqrt(parentvisits)
UctValue(stats, color) == <<get_eval(stats, color), RMul(game.cfg_puct, RDiv(stats.score, RInt(1 + stats.visits)))>>

\* value > best_value
ValueGreater(value, best_value, parentvisits) == SqrtPos(RSub(value[1], best_value[1]), RSub(value[2], best_value[2]), parentvisits)

\* the loop skipping no child
SkippedNever(ns, id, i) == FALSE

\* the child the loop skips: expanded and not valid
Skipped(ns, id, i) == i < Len(ns[id].expanded) /\ ~ns[At(ns[id].expanded, i)].valid

RECURSIVE UctLoop(_, _, _, _, _, _, _)
\* the selection loop from index i on, with the best index and value so far
UctLoop(ns, id, color, parentvisits, i, best, best_value) ==
    IF i >= Len(ns[id].child_scores) THEN best
    ELSE IF Skipped(ns, id, i) THEN UctLoop(ns, id, color, parentvisits, i + 1, best, best_value)
    ELSE LET value == UctValue(child_get_stats(ns, id, i), color)
         IN  IF ValueGreater(value, best_value, parentvisits)
             THEN UctLoop(ns, id, color, parentvisits, i + 1, i, value)
             ELSE UctLoop(ns, id, color, parentvisits, i + 1, best, best_value)

\* the loop keeping the last of the children of largest value
UctBestLast(ns, id, color, parentvisits) ==
    LET n == Len(ns[id].child_scores)
        scored == {i \in 0..n - 1 : ~Skipped(ns, id, i)}
        top == {i \in scored : \A j \in scored : ~ValueGreater(UctValue(child_get_stats(ns, id, j), color), UctValue(child_get_stats(ns, id, i), color), parentvisits)}
    IN  IF top = {} THEN 0 - 1 ELSE CHOOSE i \in top : \A j \in top : j <= i

\* best: the index the loop ends with, -1 when no child was scored
UctBest(ns, id, color, parentvisits) == UctLoop(ns, id, color, parentvisits, 0, 0 - 1, <<RInt(0 - 1000), Zero>>)

\* expand materializing the chosen entry where it stands, without the swap
ExpandNoSwap(ns, id, child) ==
    IF child < Len(ns[id].expanded) THEN ns
    ELSE LET scores == ns[id].child_scores
             kid == Append(id, At(scores, child)[1])
             made == NewNode(At(scores, child)[1], At(scores, child)[2], ns[id].child_init_eval)
         IN  [x \in DOMAIN ns \cup {kid} |->
                 IF x = kid THEN made
                 ELSE IF x = id THEN [ns[id] EXCEPT !.expanded = Append(ns[id].expanded, kid)]
                 ELSE ns[x]]

\* UCTNode::expand(child) on node id: the tree afterwards
Expand(ns, id, child) ==
    IF child < Len(ns[id].expanded) THEN ns
    ELSE LET dest == Len(ns[id].expanded)
             scores == Swap(ns[id].child_scores, dest, child)
             kid == Append(id, At(scores, dest)[1])
             made == NewNode(At(scores, dest)[1], At(scores, dest)[2], ns[id].child_init_eval)
         IN  [x \in DOMAIN ns \cup {kid} |->
                 IF x = kid THEN made
                 ELSE IF x = id THEN [ns[id] EXCEPT !.child_scores = scores, !.expanded = Append(ns[id].expanded, kid)]
                 ELSE ns[x]]

\* the node expand(child) returns
Expanded(ns, id, child) == At(Expand(ns, id, child)[id].expanded, IF child < Len(ns[id].expanded) THEN child ELSE Len(ns[id].expanded))

-----------------------------------------------------------------------------
(* The search: worker threads descending the tree *)

\* final score of a finished game from Black's side: loss, jigo, win
TerminalValues == {Zero, Rat(1, 2), One}

IdleThread ==
    [ pc |-> "idle", stack |-> <<>>, nodelist |-> <<>>, eval |-> Zero, parentvisits |-> 0,
      color |-> BLACK, invalid0 |-> {}, counted |-> 0, total0 |-> 0, skipped0 |-> 0, best |-> 0 - 1, cands |-> 0, ties |-> 0, argmax |-> 0 - 1,
      picked |-> PASS ]

\* per-node history counters, extended to the nodes of tree ns
Extend(f, ns) == [x \in DOMAIN ns |-> IF x \in DOMAIN f THEN f[x] ELSE 0]
Bump(f, id) == [f EXCEPT ![id] = f[id] + 1]

Top(t) == Last(th[t].stack)
Running == failed = "none"

Init ==
    /\ nodes = [x \in {Root} |-> NewNode(PASS, Zero, Zero)]
    /\ th = [t \in Threads |-> IdleThread]
    /\ game \in [passes : {0, 1, 2}, boardsize : {19}, cfg_puct : {One}, priors : [Moves -> PriorChoices],
                 winrate : WinrateChoices, illegal : {{}, {2}}]
    /\ nodecount = 0
    /\ started = 0
    /\ ghost = [completed |-> 0, stopped |-> 0, evals |-> [x \in {Root} |-> 0],
                trues |-> [x \in {Root} |-> 0], leaf |-> [x \in {Root} |-> 0]]
    /\ failed = "none"
    /\ probe = <<>>

\* step 1 and 2 of the descent: start at the root and push it
StartDescent(t) ==
    /\ Running /\ th[t].pc = "idle" /\ started < MaxDescents
    /\ started' = started + 1
    /\ th' = [th EXCEPT ![t] = [IdleThread EXCEPT !.pc = "visit", !.stack = <<Root>>]]
    /\ UNCHANGED <<nodes, game, nodecount, ghost, failed, probe>>

\* step 3 / 4: does the node on top of the stack have children yet
DriverVisit(t) ==
    /\ Running /\ th[t].pc = "visit"
    /\ th' = [th EXCEPT ![t].pc = IF nodes[Top(t)].has_children THEN "select" ELSE "create",
                        ![t].color = get_to_move(Top(t))]
    /\ UNCHANGED <<nodes, game, nodecount, started, ghost, failed, probe>>

\* create_children without the test of state.get_passes()
MayExpandAfterPasses(id, n) == ~n.has_children /\ ~n.is_expanding

\* create_children without the test of m_is_expanding
MayExpandNoFlag(id, n) == ~(get_passes(id) >= 2) /\ ~n.has_children

\* does the locked section of create_children let the caller expand node n
MayExpand(id, n) == ~(get_passes(id) >= 2) /\ ~n.has_children /\ ~n.is_expanding

\* create_children writing 0 to the eval out-parameter before its checks
CreateLockClearsEval(t) ==
    /\ Running /\ th[t].pc = "create"
    /\ IF nodes[Top(t)].has_children
       THEN /\ th' = [th EXCEPT ![t].pc = "cc_false", ![t].eval = Zero]
            /\ UNCHANGED nodes
       ELSE /\ nodes[Top(t)].mutex = NoThread
            /\ IF MayExpand(Top(t), nodes[Top(t)])
               THEN /\ nodes' = [nodes EXCEPT ![Top(t)].is_expanding = TRUE]
                    /\ th' = [th EXCEPT ![t].pc = "cc_eval", ![t].eval = Zero]
               ELSE /\ th' = [th EXCEPT ![t].pc = "cc_false", ![t].eval = Zero]
                    /\ UNCHANGED nodes
    /\ UNCHANGED <<game, nodecount, started, ghost, failed, probe>>

\* create_children up to the evaluator call: the check of has_children
\* without the lock, then the section under the node mutex
CreateLock(t) ==
    /\ Running /\ th[t].pc = "create"
    /\ IF nodes[Top(t)].has_children
       THEN /\ th' = [th EXCEPT ![t].pc = "cc_false"]
            /\ UNCHANGED nodes
       ELSE /\ nodes[Top(t)].mutex = NoThread
            /\ IF MayExpand(Top(t), nodes[Top(t)])
               THEN /\ nodes' = [nodes EXCEPT ![Top(t)].is_expanding = TRUE]
                    /\ th' = [th EXCEPT ![t].pc = "cc_eval"]
               ELSE /\ th' = [th EXCEPT ![t].pc = "cc_false"]
                    /\ UNCHANGED nodes
    /\ UNCHANGED <<game, nodecount, started, ghost, failed, probe>>

\* create_children: the evaluator call, the legal moves, their normalisation,
\* and the sort link_nodelist does before it takes the lock
CreateEval(t) ==
    /\ Running /\ th[t].pc = "cc_eval"
    /\ \E raw \in RawNetlists(Top(t), game.priors) :
          th' = [th EXCEPT ![t].pc = "cc_link",
                           ![t].eval = NetEval(Top(t), RawWinrate(game.winrate)),
                           ![t].nodelist = SortNodelist(Normalize(FilterLegal(raw, Top(t), game.illegal)))]
    /\ ghost' = [ghost EXCEPT !.evals = Bump(ghost.evals, Top(t))]
    /\ UNCHANGED <<nodes, game, nodecount, started, failed, probe>>

\* create_children: link_nodelist and the return of true; the descent then
\* backs the evaluator's value up (step 5)
CreateLink(t) ==
    /\ Running /\ th[t].pc = "cc_link"
    /\ IF th[t].nodelist = <<>>
       THEN UNCHANGED <<nodes, nodecount>>
       ELSE /\ nodes[Top(t)].mutex = NoThread
            /\ nodes' = [nodes EXCEPT ![Top(t)] = LinkBody(nodes[Top(t)], th[t].nodelist, th[t].eval)]
            /\ nodecount' = nodecount + Len(nodes'[Top(t)].child_scores)
    /\ th' = [th EXCEPT ![t].pc = "backup", ![t].nodelist = <<>>]
    /\ ghost' = [ghost EXCEPT !.trues = Bump(ghost.trues, Top(t)), !.leaf = Bump(ghost.leaf, Top(t))]
    /\ UNCHANGED <<game, started, failed, probe>>

\* create_children returned false: a finished game is scored and backed up,
\* any other leaf is popped and the descent stops
DriverNoExpand(t) ==
    /\ Running /\ th[t].pc = "cc_false"
    /\ IF get_passes(Top(t)) >= 2
       THEN /\ \E v \in TerminalValues : th' = [th EXCEPT ![t].pc = "backup", ![t].eval = v]
            /\ ghost' = [ghost EXCEPT !.leaf = Bump(ghost.leaf, Top(t))]
       ELSE /\ th' = [th EXCEPT ![t] = IdleThread]
            /\ ghost' = [ghost EXCEPT !.stopped = ghost.stopped + 1]
    /\ UNCHANGED <<nodes, game, nodecount, started, failed, probe>>

\* the expanded children of node id that are not valid
InvalidKids(ns, id) == {i \in 0..Len(ns[id].expanded) - 1 : ~ns[At(ns[id].expanded, i)].valid}

\* the visits of the expanded children of node id outside the set skip
VisitsOutside(ns, id, skip) ==
    LET e == ns[id].expanded
    IN  RSum([i \in 1..Len(e) |-> IF (i - 1) \in skip THEN Zero ELSE RInt(ns[e[i]].visits)])[1]

\* uct_select_child(color) on node id: take the node mutex and count
\* parentvisits
CountStep(t, id, color) ==
    /\ nodes[id].mutex = NoThread
    /\ nodes' = [nodes EXCEPT ![id].mutex = t]
    /\ th' = [th EXCEPT ![t].pc = "pick", ![t].color = color, ![t].stack = IF id = Root THEN <<Root>> ELSE th[t].stack,
                        ![t].parentvisits = ParentVisits(nodes, id),
                        ![t].invalid0 = InvalidKids(nodes, id),
                        ![t].counted = VisitsOutside(nodes, id, InvalidKids(nodes, id)),
                        ![t].total0 = VisitsOutside(nodes, id, {}),
                        ![t].skipped0 = VisitsOutside(nodes, id, (0..Len(nodes[id].expanded) - 1) \ InvalidKids(nodes, id))]
    /\ UNCHANGED <<game, nodecount, started, ghost, failed, probe>>

\* the descent calls uct_select_child on the node it stands on
SelectCount(t) ==
    /\ Running /\ th[t].pc = "select"
    /\ CountStep(t, Top(t), th[t].color)

\* the score of child i as the selection rule states it: winrate + c_puct *
\* prior * sqrt(parent_visits) / (1 + visits), a latent child having no
\* visits, no virtual loss and the parent's init eval
RuleValue(ns, id, i, color) ==
    LET latent == ~(i < Len(ns[id].expanded))
        kid == ns[At(ns[id].expanded, i)]
        visits == IF latent THEN 0 ELSE kid.visits
        prior == IF latent THEN At(ns[id].child_scores, i)[2] ELSE kid.score
        winrate == IF latent
                   THEN get_eval([visits |-> 0, blackevals |-> Zero, score |-> prior,
                                  init_eval |-> ns[id].child_init_eval, virtual_loss |-> 0], color)
                   ELSE get_eval(get_all_stats(kid), color)
    IN  <<winrate, RDiv(RMul(game.cfg_puct, prior), RInt(1 + visits))>>

\* the children the rule ranges over: latent, or materialized and valid
Eligible(ns, id) == {i \in 0..Len(ns[id].child_scores) - 1 : ~(i < Len(ns[id].expanded)) \/ ns[At(ns[id].expanded, i)].valid}

\* the eligible children no eligible child beats
Maximal(ns, id, color, parentvisits) ==
    {i \in Eligible(ns, id) : \A j \in Eligible(ns, id) :
        ~ValueGreater(RuleValue(ns, id, j, color), RuleValue(ns, id, i, color), parentvisits)}

\* the lowest index among them, -1 when there is none
FirstMaximal(ns, id, color, parentvisits) ==
    LET top == Maximal(ns, id, color, parentvisits)
    IN  IF top = {} THEN 0 - 1 ELSE CHOOSE i \in top : \A j \in top : i <= j

\* uct_select_child: score the children, expand the best, release the mutex
SelectPick(t) ==
    /\ Running /\ th[t].pc = "pick"
    /\ LET id == Top(t)
           best == UctBest(nodes, id, th[t].color, th[t].parentvisits)
       IN  IF best = 0 - 1
           THEN /\ failed' = "best"
                /\ UNCHANGED <<nodes, th, ghost>>
           ELSE IF ~(best < Len(nodes[id].child_scores))
           THEN /\ failed' = "expand"
                /\ UNCHANGED <<nodes, th, ghost>>
           ELSE /\ nodes' = [Expand(nodes, id, best) EXCEPT ![id].mutex = NoThread]
                /\ th' = [th EXCEPT ![t].pc = "enter", ![t].best = best,
                                    ![t].cands = Cardinality(Eligible(nodes, id)),
                                    ![t].ties = Cardinality(Maximal(nodes, id, th[t].color, th[t].parentvisits)),
                                    ![t].argmax = FirstMaximal(nodes, id, th[t].color, th[t].parentvisits),
                                    ![t].picked = At(nodes[id].child_scores, best)[1],
                                    ![t].stack = Append(th[t].stack, Expanded(nodes, id, best))]
                /\ ghost' = [ghost EXCEPT !.evals = Extend(ghost.evals, nodes'), !.trues = Extend(ghost.trues, nodes'),
                                          !.leaf = Extend(ghost.leaf, nodes')]
                /\ UNCHANGED failed
    /\ UNCHANGED <<game, nodecount, started, probe>>

\* step 4: enter_node on the selected child, now on top of the stack
DriverEnter(t) ==
    /\ Running /\ th[t].pc = "enter"
    /\ nodes[Top(t)].mutex = NoThread
    /\ nodes' = [nodes EXCEPT ![Top(t)] = EnterBody(nodes[Top(t)], 0, Zero)]
    /\ th' = [th EXCEPT ![t] = [IdleThread EXCEPT !.pc = "visit", !.stack = th[t].stack]]
    /\ UNCHANGED <<game, nodecount, started, ghost, failed, probe>>

\* step 5: leave_node(1, value) on the stack's nodes, leaf first
DriverBackup(t) ==
    /\ Running /\ th[t].pc = "backup"
    /\ nodes[Top(t)].mutex = NoThread
    /\ nodes' = [nodes EXCEPT ![Top(t)] = LeaveBody(nodes[Top(t)], 1, th[t].eval)]
    /\ IF Len(th[t].stack) = 1
       THEN /\ th' = [th EXCEPT ![t] = IdleThread]
            /\ ghost' = [ghost EXCEPT !.completed = ghost.completed + 1]
       ELSE /\ th' = [th EXCEPT ![t].stack = Front(th[t].stack)]
            /\ UNCHANGED ghost
    /\ UNCHANGED <<game, nodecount, started, failed, probe>>

Next ==
    \/ \E t \in Threads : StartDescent(t)
    \/ \E t \in Threads : DriverVisit(t)
    \/ \E t \in Threads : CreateLock(t)
    \/ \E t \in Threads : CreateEval(t)
    \/ \E t \in Threads : CreateLink(t)
    \/ \E t \in Threads : DriverNoExpand(t)
    \/ \E t \in Threads : SelectCount(t)
    \/ \E t \in Threads : SelectPick(t)
    \/ \E t \in Threads : DriverEnter(t)
    \/ \E t \in Threads : DriverBackup(t)

Spec == Init /\ [][Next]_vars

-----------------------------------------------------------------------------
(* Properties of the search *)

Quiescent == \A t \in Threads : th[t].pc = "idle"

\* the threads inside create_children on node id at program point pc
Inside(id, pc) == {t \in Threads : th[t].pc = pc /\ Last(th[t].stack) = id}

\* C1: whatever the interleaving of create_children calls on a node, the
\* evaluator is invoked at most once for it and at most one call returns
\* true; a call returns true only after its own evaluator call, so every
\* other call returns false without one.
C1_SingleExpander ==
    \A id \in DOMAIN nodes :
        /\ ghost.evals[id] <= 1
        /\ ghost.trues[id] <= 1
        /\ ghost.trues[id] + Cardinality(Inside(id, "cc_link")) = ghost.evals[id]
        /\ Cardinality(Inside(id, "cc_eval")) + ghost.evals[id] <= 1

\* two calls ran concurrently on the non-terminal root: one is past its
\* evaluator call, the other has returned false
C1_Witness ==
    /\ get_passes(Root) < 2
    /\ Inside(Root, "cc_link") # {}
    /\ Inside(Root, "cc_false") # {}

\* C2: in every quiescent state every node, the root included, has
\* virtual_loss = 0.
C2_QuiescentVirtualLossZero == Quiescent => \A id \in DOMAIN nodes : nodes[id].virtual_loss = 0

SumVisits(ids) == RSum([i \in 1..Len(ids) |-> RInt(nodes[ids[i]].visits)])[1]

\* C3: in every quiescent state every node's visits are the visits of its
\* materialized children plus the descents that were backed up from this node
\* as their leaf, and the root's visits are the descents that were backed up.
C3_VisitAccounting ==
    Quiescent =>
        /\ \A id \in DOMAIN nodes : nodes[id].visits = SumVisits(nodes[id].expanded) + ghost.leaf[id]
        /\ nodes[Root].visits = ghost.completed

\* a quiescent tree with visits below the root, after a descent that was
\* backed up from a child and one that stopped at a leaf being expanded
C3_Witness ==
    /\ Quiescent
    /\ ghost.completed >= 2
    /\ ghost.stopped >= 1
    /\ \E id \in DOMAIN nodes : id # Root /\ nodes[id].visits >= 1

\* C4: virtual_loss >= 0 for every node in every reachable state.
C4_VirtualLossNonNegative == \A id \in DOMAIN nodes : nodes[id].virtual_loss >= 0

-----------------------------------------------------------------------------
(* NodeStats::get_eval on drawn statistics *)

StubGame ==
    [ passes |-> 0, boardsize |-> 19, cfg_puct |-> One, priors |-> [m \in Moves |-> Rat(1, 4)],
      winrate |-> One, illegal |-> {} ]

\* everything but the tree and the probe, as constructed
Fresh ==
    /\ th = [t \in Threads |-> IdleThread]
    /\ nodecount = 0
    /\ started = 0
    /\ ghost = [completed |-> 0, stopped |-> 0, evals |-> [x \in {Root} |-> 0],
                trues |-> [x \in {Root} |-> 0], leaf |-> [x \in {Root} |-> 0]]
    /\ failed = "none"

Snapshots ==
    {[visits |-> v, blackevals |-> RInt(b), score |-> Zero, init_eval |-> ie, virtual_loss |-> vl] :
        v \in 0..MaxStat, b \in 0..MaxStat, vl \in 0..MaxStat, ie \in {Zero, Rat(1, 2), One}}

EvalInit ==
    /\ Fresh
    /\ game = StubGame
    /\ nodes = [x \in {Root} |-> NewNode(PASS, Zero, Zero)]
    /\ \E s \in Snapshots : s.blackevals[1] <= s.visits /\ probe = [stats |-> s, done |-> FALSE, black |-> Zero, white |-> Zero]

\* both sides' evaluation of the snapshot
EvalBoth ==
    /\ ~probe.done
    /\ probe' = [probe EXCEPT !.done = TRUE, !.black = get_eval(probe.stats, BLACK), !.white = get_eval(probe.stats, WHITE)]
    /\ UNCHANGED <<nodes, th, game, nodecount, started, ghost, failed>>

EvalNext == EvalBoth

SpecEval == EvalInit /\ [][EvalNext]_vars

EvalTotal == probe.stats.visits + probe.stats.virtual_loss

\* C5 as stated: whenever visits + virtual_loss > 0, get_eval(BLACK) + get_eval(WHITE) = 1.
C5_EvalsSumToOne == (probe.done /\ EvalTotal > 0) => RAdd(probe.black, probe.white) = One

\* C5, amended: whenever visits + virtual_loss > 0, get_eval(BLACK) +
\* get_eval(WHITE) = 1 - virtual_loss / (visits + virtual_loss), which is 1
\* exactly when virtual_loss = 0.
C5_EvalsSumWithVirtualLoss ==
    (probe.done /\ EvalTotal > 0) =>
        /\ RAdd(probe.black, probe.white) = RSub(One, Rat(probe.stats.virtual_loss, EvalTotal))
        /\ (RAdd(probe.black, probe.white) = One) <=> (probe.stats.virtual_loss = 0)

\* a visited snapshot carrying virtual losses has been evaluated for both sides
C5_Witness == probe.done /\ probe.stats.visits > 0 /\ probe.stats.virtual_loss > 0 /\ probe.stats.blackevals[1] > 0

-----------------------------------------------------------------------------
(* enter_node and leave_node called concurrently on one node *)

EnterArgs == {0, 2} \X {Zero, RInt(3)}
LeaveArgs == {1, 2} \X {Zero, One}

NoCall == [pc |-> "idle", op |-> "none", visits |-> 0, eval_sum |-> Zero, loaded |-> NewNode(PASS, Zero, Zero)]
NoOp == [op |-> "none", visits |-> 0, eval_sum |-> Zero, pre |-> get_all_stats(NewNode(PASS, Zero, Zero)),
         ret |-> get_all_stats(NewNode(PASS, Zero, Zero))]

NodeInit ==
    /\ Fresh
    /\ game = StubGame
    /\ nodes = [x \in {Root} |-> NewNode(PASS, Zero, Zero)]
    /\ probe = [call |-> [t \in Threads |-> NoCall], calls |-> 0, sum_visits |-> 0, sum_evals |-> Zero,
                enters |-> 0, leaves |-> 0, plain |-> TRUE, lastop |-> NoOp]

\* the mutex ignored: the lock is always granted
AcquirableAlways(n) == TRUE

\* LOCK(m_nodemutex, lock) can be taken on node n
Acquirable(n) == n.mutex = NoThread

\* a call of enter_node or leave_node takes the node mutex; what it reads of
\* the plain fields from here on is the node as it is now
NodeAcquire(t, op, visits, eval_sum) ==
    /\ probe.call[t].pc = "idle" /\ probe.calls < MaxCalls
    /\ Acquirable(nodes[Root])
    /\ nodes' = [nodes EXCEPT ![Root].mutex = t]
    /\ probe' = [probe EXCEPT !.calls = probe.calls + 1,
                              !.call[t] = [pc |-> "locked", op |-> op, visits |-> visits, eval_sum |-> eval_sum,
                                           loaded |-> nodes[Root]]]
    /\ UNCHANGED <<th, game, nodecount, started, ghost, failed>>

\* the fields a call writes: m_visits and m_blackevals from what it read,
\* the atomic m_virtual_loss by a read-modify-write of the current value
Written(c, now) ==
    LET plain == IF c.op = "enter" THEN EnterBody(c.loaded, c.visits, c.eval_sum) ELSE LeaveBody(c.loaded, c.visits, c.eval_sum)
        atomic == IF c.op = "enter" THEN EnterBody(now, c.visits, c.eval_sum) ELSE LeaveBody(now, c.visits, c.eval_sum)
    IN  [now EXCEPT !.visits = plain.visits, !.blackevals = plain.blackevals, !.virtual_loss = atomic.virtual_loss,
                    !.mutex = NoThread]

\* the call writes the fields, returns get_all_stats() and releases the mutex
NodeUpdate(t) ==
    /\ probe.call[t].pc = "locked"
    /\ nodes' = [nodes EXCEPT ![Root] = Written(probe.call[t], nodes[Root])]
    /\ LET c == probe.call[t]
       IN  probe' = [probe EXCEPT
                        !.call[t] = NoCall,
                        !.sum_visits = IF c.op = "leave" THEN probe.sum_visits + c.visits ELSE probe.sum_visits,
                        !.sum_evals = IF c.op = "leave" THEN RAdd(probe.sum_evals, c.eval_sum) ELSE probe.sum_evals,
                        !.enters = IF c.op = "enter" THEN probe.enters + 1 ELSE probe.enters,
                        !.leaves = IF c.op = "leave" THEN probe.leaves + 1 ELSE probe.leaves,
                        !.plain = probe.plain /\ (c.op = "enter" => (c.visits = 0 /\ c.eval_sum = Zero)),
                        !.lastop = [op |-> c.op, visits |-> c.visits, eval_sum |-> c.eval_sum,
                                    pre |-> get_all_stats(nodes[Root]), ret |-> get_all_stats(nodes'[Root])]]
    /\ UNCHANGED <<th, game, nodecount, started, ghost, failed>>

NodeNext ==
    \/ \E t \in Threads, a \in EnterArgs : NodeAcquire(t, "enter", a[1], a[2])
    \/ \E t \in Threads, a \in LeaveArgs : NodeAcquire(t, "leave", a[1], a[2])
    \/ \E t \in Threads : NodeUpdate(t)

SpecNode == NodeInit /\ [][NodeNext]_vars

\* C6 as stated: enter_node leaves visits = max(old visits, initial_visits),
\* black_evals = max(old black_evals, initial_eval_sum), each on its own, and
\* virtual_loss = old virtual_loss + VIRTUAL_LOSS_COUNT.
C6_EnterTakesEachMax ==
    probe.lastop.op = "enter" =>
        /\ probe.lastop.ret.visits = (IF probe.lastop.visits > probe.lastop.pre.visits THEN probe.lastop.visits ELSE probe.lastop.pre.visits)
        /\ probe.lastop.ret.blackevals = RMax(probe.lastop.pre.blackevals, probe.lastop.eval_sum)
        /\ probe.lastop.ret.virtual_loss = probe.lastop.pre.virtual_loss + VIRTUAL_LOSS_COUNT

\* C6, amended: enter_node leaves visits = max(old visits, initial_visits);
\* black_evals = initial_eval_sum when initial_visits > old visits and the old
\* black_evals otherwise; virtual_loss = old virtual_loss + VIRTUAL_LOSS_COUNT.
C6_EnterInstallsPair ==
    probe.lastop.op = "enter" =>
        /\ probe.lastop.ret.visits = (IF probe.lastop.visits > probe.lastop.pre.visits THEN probe.lastop.visits ELSE probe.lastop.pre.visits)
        /\ probe.lastop.ret.blackevals = (IF probe.lastop.visits > probe.lastop.pre.visits THEN probe.lastop.eval_sum ELSE probe.lastop.pre.blackevals)
        /\ probe.lastop.ret.virtual_loss = probe.lastop.pre.virtual_loss + VIRTUAL_LOSS_COUNT

\* enter_node installed larger visits together with a smaller eval sum
C6_Witness ==
    /\ probe.lastop.op = "enter"
    /\ probe.lastop.visits > probe.lastop.pre.visits
    /\ RLt(probe.lastop.eval_sum, probe.lastop.pre.blackevals)

\* C7: after any interleaving of leave_node(a_i, e_i) and enter_node(0, 0)
\* calls the node's visits are the sum of the a_i, its black_evals the sum of
\* the e_i and its virtual_loss VIRTUAL_LOSS_COUNT * (enters - leaves); and
\* each call returns the node as its own update left it.
C7_NoLostUpdate ==
    probe.plain =>
        /\ nodes[Root].visits = probe.sum_visits
        /\ nodes[Root].blackevals = probe.sum_evals
        /\ nodes[Root].virtual_loss = VIRTUAL_LOSS_COUNT * (probe.enters - probe.leaves)
        /\ probe.lastop.op = "leave" =>
              /\ probe.lastop.ret.visits = probe.lastop.pre.visits + probe.lastop.visits
              /\ probe.lastop.ret.blackevals = RAdd(probe.lastop.pre.blackevals, probe.lastop.eval_sum)
              /\ probe.lastop.ret.virtual_loss = probe.lastop.pre.virtual_loss - VIRTUAL_LOSS_COUNT
        /\ probe.lastop.op = "enter" =>
              /\ probe.lastop.ret.visits = probe.lastop.pre.visits
              /\ probe.lastop.ret.blackevals = probe.lastop.pre.blackevals
              /\ probe.lastop.ret.virtual_loss = probe.lastop.pre.virtual_loss + VIRTUAL_LOSS_COUNT

\* two leave_node calls and an enter_node(0, 0) are done while the other
\* thread waits inside its own call
C7_Witness ==
    /\ probe.plain
    /\ probe.leaves >= 2 /\ probe.enters >= 1
    /\ probe.sum_visits >= 3
    /\ \E t \in Threads : probe.call[t].pc = "locked"

-----------------------------------------------------------------------------
(* The operations of one node, called on the root and its children: *)
(* create_children, kill_superkos, dirichlet_noise, invalidate,     *)
(* enter_node, leave_node and uct_select_child                      *)

MaxEnters == 2
MaxNoise == 1

\* the policy outputs the root is created from
RootPriors == {[m \in Moves |-> IF m = PASS THEN Rat(1, 4) ELSE Rat(m, 4)]}

\* the thread that calls create_children and uct_select_child on the root
RootCallers == {"t1"}

\* the colors a caller passes to uct_select_child
Colors == {BLACK, WHITE}

\* epsilon of dirichlet_noise
Epsilon == Rat(1, 4)

\* draws of the gamma distribution for child_cnt children: all zero, or all
\* on the last child
GammaSamples(child_cnt) ==
    {[i \in 1..child_cnt |-> Zero],
     [i \in 1..child_cnt |-> IF i = child_cnt THEN One ELSE Zero]}

\* the sets of vertices whose play repeats an earlier position
Superkos == {{}, {1}, Vertices}

\* the assertions compiled out: the call goes on whatever is materialized
NoChildMaterializedUnchecked(n) == TRUE

\* assert(m_expanded.size() == 0) of kill_superkos and dirichlet_noise
NoChildMaterialized(n) == Len(n.expanded) = 0

\* kill_superkos pruning nothing
KillBodyKeepsAll(n, superko) == n

\* kill_superkos dropping the pass as well when the position repeats
KillBodyAlsoPass(n, superko) ==
    [n EXCEPT !.child_scores = SelectSeq(n.child_scores, LAMBDA child : child[1] \notin superko \cup {PASS})]

\* kill_superkos dividing the priors that are left by their sum
KillBodyRenormalizing(n, superko) ==
    LET good_moves == SelectSeq(n.child_scores, LAMBDA child : child[1] = PASS \/ child[1] \notin superko)
        total == RSum([i \in 1..Len(good_moves) |-> good_moves[i][2]])
    IN  [n EXCEPT !.child_scores =
            IF RLt(Zero, total)
            THEN [i \in 1..Len(good_moves) |-> <<good_moves[i][1], RDiv(good_moves[i][2], total)>>]
            ELSE good_moves]

\* the body of kill_superkos: superko is the set of vertices whose play
\* repeats an earlier position
KillBody(n, superko) ==
    [n EXCEPT !.child_scores = SelectSeq(n.child_scores, LAMBDA child : child[1] = PASS \/ child[1] \notin superko)]

\* dirichlet_noise adding the gamma draws without dividing them by their sum
NoiseBodyUnnormalized(n, epsilon, dirichlet_vector) ==
    LET sample_sum == RSum(dirichlet_vector)
    IN  IF ~RLt(Zero, sample_sum) THEN n
        ELSE [n EXCEPT !.child_scores =
                 [i \in 1..Len(n.child_scores) |->
                     <<n.child_scores[i][1],
                       RAdd(RMul(n.child_scores[i][2], RSub(One, epsilon)), RMul(epsilon, dirichlet_vector[i]))>>]]

\* the body of dirichlet_noise behind its assertion
NoiseBody(n, epsilon, dirichlet_vector) ==
    LET sample_sum == RSum(dirichlet_vector)
    IN  IF ~RLt(Zero, sample_sum) THEN n
        ELSE [n EXCEPT !.child_scores =
                 [i \in 1..Len(n.child_scores) |->
                     <<n.child_scores[i][1],
                       RAdd(RMul(n.child_scores[i][2], RSub(One, epsilon)),
                            RMul(epsilon, RDiv(dirichlet_vector[i], sample_sum)))>>]]

RootInit ==
    /\ nodes = [x \in {Root} |-> NewNode(PASS, Zero, Zero)]
    /\ th = [t \in Threads |-> IdleThread]
    /\ game \in [passes : {0}, boardsize : {19}, cfg_puct : {One}, priors : RootPriors,
                 winrate : {One}, illegal : {{}}]
    /\ nodecount = 0
    /\ started = 0
    /\ ghost = [completed |-> 0, stopped |-> 0, evals |-> [x \in {Root} |-> 0],
                trues |-> [x \in {Root} |-> 0], leaf |-> [x \in {Root} |-> 0]]
    /\ failed = "none"
    /\ probe = [enters |-> 0, noise |-> 0]

\* a caller calls create_children on the root, which has no children yet
RootCreate(t) ==
    /\ Running /\ th[t].pc = "idle"
    /\ ~nodes[Root].has_children
    /\ th' = [th EXCEPT ![t].pc = "create", ![t].stack = <<Root>>]
    /\ UNCHANGED <<nodes, game, nodecount, started, ghost, failed, probe>>

\* a caller calls uct_select_child(color) on the root, which has children,
\* and the call takes the mutex and counts
RootSelect(t, color) ==
    /\ Running /\ th[t].pc = "idle"
    /\ nodes[Root].has_children
    /\ CountStep(t, Root, color)

\* create_children or uct_select_child has returned to its caller
RootReturn(t) ==
    /\ Running /\ th[t].pc \in {"backup", "cc_false", "enter"}
    /\ th' = [th EXCEPT ![t] = IdleThread]
    /\ UNCHANGED <<nodes, game, nodecount, started, ghost, failed, probe>>

\* kill_superkos on the root
KillSuperkos(superko) ==
    /\ Running /\ nodes[Root].mutex = NoThread
    /\ IF ~NoChildMaterialized(nodes[Root])
       THEN /\ failed' = "kill_superkos"
            /\ UNCHANGED nodes
       ELSE /\ nodes' = [nodes EXCEPT ![Root] = KillBody(nodes[Root], superko)]
            /\ UNCHANGED failed
    /\ UNCHANGED <<th, game, nodecount, started, ghost, probe>>

\* dirichlet_noise on the root
DirichletNoise(dirichlet_vector) ==
    /\ Running /\ nodes[Root].mutex = NoThread
    /\ probe.noise < MaxNoise
    /\ IF ~NoChildMaterialized(nodes[Root])
       THEN /\ failed' = "dirichlet_noise"
            /\ UNCHANGED <<nodes, probe>>
       ELSE /\ nodes' = [nodes EXCEPT ![Root] = NoiseBody(nodes[Root], Epsilon, dirichlet_vector)]
            /\ probe' = [probe EXCEPT !.noise = probe.noise + 1]
            /\ UNCHANGED failed
    /\ UNCHANGED <<th, game, nodecount, started, ghost>>

\* invalidate on a node the superko pruning reaches: never a pass
Invalidate(id) ==
    /\ Running /\ nodes[id].move # PASS
    /\ nodes[id].valid
    /\ nodes' = [nodes EXCEPT ![id].valid = FALSE]
    /\ UNCHANGED <<th, game, nodecount, started, ghost, failed, probe>>

\* enter_node(0, 0.0) on a child of the root
EnterNode(id) ==
    /\ Running /\ nodes[id].mutex = NoThread
    /\ probe.enters < MaxEnters
    /\ nodes' = [nodes EXCEPT ![id] = EnterBody(nodes[id], 0, Zero)]
    /\ probe' = [probe EXCEPT !.enters = probe.enters + 1]
    /\ UNCHANGED <<th, game, nodecount, started, ghost, failed>>

\* leave_node(1, eval) on a child of the root that was entered
LeaveNode(id, eval) ==
    /\ Running /\ nodes[id].mutex = NoThread
    /\ nodes[id].virtual_loss > 0
    /\ nodes' = [nodes EXCEPT ![id] = LeaveBody(nodes[id], 1, eval)]
    /\ UNCHANGED <<th, game, nodecount, started, ghost, failed, probe>>

RootNext ==
    \/ \E t \in RootCallers : RootCreate(t) \/ CreateLock(t) \/ CreateEval(t) \/ CreateLink(t)
    \/ \E t \in RootCallers : RootReturn(t)
    \/ \E t \in RootCallers, color \in Colors : RootSelect(t, color)
    \/ \E t \in RootCallers : SelectPick(t)
    \/ \E superko \in Superkos : KillSuperkos(superko)
    \/ \E dirichlet_vector \in GammaSamples(Len(nodes[Root].child_scores)) : DirichletNoise(dirichlet_vector)
    \/ \E id \in DOMAIN nodes : Invalidate(id)
    \/ \E id \in DOMAIN nodes \ {Root} : EnterNode(id)
    \/ \E id \in DOMAIN nodes \ {Root}, eval \in WinrateChoices : LeaveNode(id, eval)

SpecRoot == RootInit /\ [][RootNext]_vars

\* C8: uct_select_child(color) returns the child of largest winrate + c_puct *
\* prior * sqrt(parent_visits) / (1 + visits) among the latent and the valid
\* materialized children, the lowest index winning a tie, with parent_visits
\* the visits of the valid materialized children
C8_SelectsFirstMaximum ==
    \A t \in Threads :
        /\ th[t].pc = "pick" => th[t].parentvisits = th[t].counted
        /\ th[t].pc = "enter" => /\ th[t].best = th[t].argmax
                                 /\ nodes[Top(t)].move = th[t].picked

\* a selection among three children, two of them tied for the maximum, with
\* visits counted
C8_Witness ==
    \E t \in Threads : /\ th[t].pc = "enter" /\ th[t].cands >= 3 /\ th[t].ties = 2
                       /\ th[t].parentvisits > 0 /\ th[t].best > 0

\* C9: uct_select_child never returns a materialized child that was invalid
\* when the call began, and parent_visits leaves the visits of those out
C9_InvalidNeverSelected ==
    \A t \in Threads :
        /\ th[t].pc = "enter" => th[t].best \notin th[t].invalid0
        /\ th[t].pc = "pick" => th[t].parentvisits + th[t].skipped0 = th[t].total0

\* a selection made while a visited child was invalid
C9_Witness ==
    \E t \in Threads : /\ th[t].pc = "enter" /\ th[t].invalid0 # {}
                       /\ \E i \in th[t].invalid0 : nodes[At(nodes[Root].expanded, i)].visits > 0

-----------------------------------------------------------------------------
(* The root policy: one caller applying the operations of the root one     *)
(* after the other: create_children, kill_superkos, dirichlet_noise,       *)
(* uct_select_child, expand_all, sort_root_children, get_best_root_child,  *)
(* get_nopass_child and randomize_first_proportionally                     *)

MaxPolicyVisits == 3

\* the last operation, if it was one whose inputs and result are looked at
NoLast == [op |-> "none", color |-> BLACK, pick |-> 0, result |-> 0 - 1, before |-> <<>>,
           scores |-> <<>>, superko |-> {}, gamma |-> <<>>]

RECURSIVE ExpandFrom(_, _, _)
\* the loop of expand_all from index child on
ExpandFrom(ns, id, child) ==
    IF child >= Len(ns[id].child_scores) THEN ns
    ELSE ExpandFrom(Expand(ns, id, child), id, child + 1)

\* expand_all
ExpandAll(ns, id) == ExpandFrom(ns, id, 0)

\* UCTNode::get_eval(tomove) of node n
node_get_eval(n, color) == get_eval(get_all_stats(n), color)

\* NodeComp with equal visits always deciding on the prior
NodeCompByScore(ns, color, a, b) ==
    IF ns[a].visits # ns[b].visits THEN ns[a].visits < ns[b].visits
    ELSE RLt(ns[a].score, ns[b].score)

\* NodeComp(color)(a, b): is child a less than child b
NodeComp(ns, color, a, b) ==
    IF ns[a].visits # ns[b].visits THEN ns[a].visits < ns[b].visits
    ELSE IF ns[a].visits = 0 THEN RLt(ns[a].score, ns[b].score)
    ELSE RLt(node_get_eval(ns[a], color), node_get_eval(ns[b], color))

RECURSIVE MaxElementFrom(_, _, _, _, _)
\* std::max_element from index i on, largest being the index found so far
MaxElementFrom(ns, color, e, largest, i) ==
    IF i >= Len(e) THEN largest
    ELSE IF NodeComp(ns, color, At(e, largest), At(e, i)) THEN MaxElementFrom(ns, color, e, i, i + 1)
    ELSE MaxElementFrom(ns, color, e, largest, i + 1)

\* std::max_element(begin(m_expanded), end(m_expanded), NodeComp(color))
MaxElement(ns, color, e) == MaxElementFrom(ns, color, e, 0, 1)

RECURSIVE NodeInsertStable(_, _, _, _)
\* insert x behind every element that is not greater than x
NodeInsertStable(ns, color, sorted, x) ==
    IF sorted = <<>> THEN <<x>>
    ELSE IF NodeComp(ns, color, x, Head(sorted)) THEN <<x>> \o sorted
    ELSE <<Head(sorted)>> \o NodeInsertStable(ns, color, Tail(sorted), x)

RECURSIVE NodeStableSort(_, _, _)
\* std::stable_sort(begin(m_expanded), end(m_expanded), NodeComp(color))
NodeStableSort(ns, color, e) ==
    IF e = <<>> THEN <<>> ELSE NodeInsertStable(ns, color, NodeStableSort(ns, color, Front(e)), Last(e))

\* the stable sort and the std::reverse of sort_root_children
SortBody(ns, color, e) == Reverse(NodeStableSort(ns, color, e))

RECURSIVE Accum(_, _, _)
\* accum after the first i children of e
Accum(ns, e, i) == IF i = 0 THEN 0 ELSE Accum(ns, e, i - 1) + ns[e[i]].visits

RECURSIVE PickIndexFrom(_, _, _, _)
\* the loop over accum_vector from index i on; index stays 0 when no entry
\* exceeds the pick
PickIndexFrom(ns, e, pick, i) ==
    IF i >= Len(e) THEN 0
    ELSE IF pick < Accum(ns, e, i + 1) THEN i
    ELSE PickIndexFrom(ns, e, pick, i + 1)

\* an index that ignores the visits: every child equally likely
PickIndexUniform(ns, e, pick) == IF e = <<>> THEN 0 ELSE pick % Len(e)

\* index of randomize_first_proportionally for a pick
PickIndex(ns, e, pick) == PickIndexFrom(ns, e, pick, 0)

\* randomize_first_proportionally never swapping
RandomizeBodyNoSwap(e, index) == e

\* the early out and the std::iter_swap of randomize_first_proportionally
RandomizeBody(e, index) == IF index = 0 THEN e ELSE Swap(e, 0, index)

\* Random::randuint32(accum): a number below accum, 0 when accum is 0
Draws(accum) == IF accum = 0 THEN {0} ELSE 0..accum - 1

\* the sets of vertices FastBoard::is_eye holds for
EyeSets == {{}, {2}, Vertices}

RECURSIVE FirstNoPass(_, _, _, _)
\* the loop of get_nopass_child from index i on: -1 is nullptr
FirstNoPass(ns, e, eyes, i) ==
    IF i >= Len(e) THEN 0 - 1
    ELSE IF ns[At(e, i)].move # PASS /\ ns[At(e, i)].move \notin eyes THEN i
    ELSE FirstNoPass(ns, e, eyes, i + 1)

PolicyInit ==
    /\ nodes = [x \in {Root} |-> NewNode(PASS, Zero, Zero)]
    /\ th = [t \in Threads |-> IdleThread]
    /\ game \in [passes : {0, 2}, boardsize : {19}, cfg_puct : {One}, priors : RootPriors,
                 winrate : {One}, illegal : {{}, {2}}]
    /\ nodecount = 0
    /\ started = 0
    /\ ghost = [completed |-> 0, stopped |-> 0, evals |-> [x \in {Root} |-> 0],
                trues |-> [x \in {Root} |-> 0], leaf |-> [x \in {Root} |-> 0]]
    /\ failed = "none"
    /\ probe = [visits |-> 0, noise |-> 0, last |-> NoLast]

\* create_children on the root, from the call to the return
PolicyCreate ==
    /\ Running
    /\ IF ~MayExpand(Root, nodes[Root])
       THEN /\ probe' = [probe EXCEPT !.last = [NoLast EXCEPT !.op = "create", !.result = 0]]
            /\ UNCHANGED <<nodes, nodecount>>
       ELSE /\ \E raw \in RawNetlists(Root, game.priors) :
                   LET nodelist == SortNodelist(Normalize(FilterLegal(raw, Root, game.illegal)))
                       n == [nodes[Root] EXCEPT !.is_expanding = TRUE]
                   IN  nodes' = [nodes EXCEPT ![Root] =
                                    IF nodelist = <<>> THEN n
                                    ELSE LinkBody(n, nodelist, NetEval(Root, RawWinrate(game.winrate)))]
            /\ nodecount' = nodecount + Len(nodes'[Root].child_scores)
            /\ probe' = [probe EXCEPT !.last = [NoLast EXCEPT !.op = "create", !.result = 1]]
    /\ UNCHANGED <<th, game, started, ghost, failed>>

\* kill_superkos on the root
PolicyKill(superko) ==
    /\ Running
    /\ IF ~NoChildMaterialized(nodes[Root])
       THEN /\ failed' = "kill_superkos"
            /\ UNCHANGED nodes
       ELSE /\ nodes' = [nodes EXCEPT ![Root] = KillBody(nodes[Root], superko)]
            /\ UNCHANGED failed
    /\ probe' = [probe EXCEPT !.last = [NoLast EXCEPT !.op = "kill_superkos", !.superko = superko,
                                                   !.scores = nodes[Root].child_scores, !.before = nodes[Root]]]
    /\ UNCHANGED <<th, game, nodecount, started, ghost>>

\* dirichlet_noise on the root
PolicyNoise(dirichlet_vector) ==
    /\ Running
    /\ probe.noise < MaxNoise
    /\ IF ~NoChildMaterialized(nodes[Root])
       THEN /\ failed' = "dirichlet_noise"
            /\ UNCHANGED nodes
       ELSE /\ nodes' = [nodes EXCEPT ![Root] = NoiseBody(nodes[Root], Epsilon, dirichlet_vector)]
            /\ UNCHANGED failed
    /\ probe' = [probe EXCEPT !.noise = probe.noise + 1,
                              !.last = [NoLast EXCEPT !.op = "dirichlet_noise", !.gamma = dirichlet_vector,
                                                      !.scores = nodes[Root].child_scores]]
    /\ UNCHANGED <<th, game, nodecount, started, ghost>>

\* uct_select_child(color) on the root, which has children
PolicySelect(color) ==
    /\ Running
    /\ nodes[Root].has_children
    /\ LET best == UctBest(nodes, Root, color, ParentVisits(nodes, Root))
       IN  IF best = 0 - 1
           THEN /\ failed' = "best"
                /\ UNCHANGED nodes
           ELSE /\ nodes' = Expand(nodes, Root, best)
                /\ UNCHANGED failed
    /\ probe' = [probe EXCEPT !.last = NoLast]
    /\ UNCHANGED <<th, game, nodecount, started, ghost>>

\* a descent through a child of the root that was backed up: enter_node(0, 0)
\* and then leave_node(1, eval)
PolicyVisit(id, eval) ==
    /\ Running
    /\ probe.visits < MaxPolicyVisits
    /\ nodes' = [nodes EXCEPT ![id] = LeaveBody(EnterBody(nodes[id], 0, Zero), 1, eval)]
    /\ probe' = [probe EXCEPT !.visits = probe.visits + 1, !.last = NoLast]
    /\ UNCHANGED <<th, game, nodecount, started, ghost, failed>>

\* expand_all on the root
PolicyExpandAll ==
    /\ Running
    /\ nodes' = ExpandAll(nodes, Root)
    /\ probe' = [probe EXCEPT !.last = NoLast]
    /\ UNCHANGED <<th, game, nodecount, started, ghost, failed>>

\* sort_root_children(color) on the root
PolicySort(color) ==
    /\ Running
    /\ LET ns == ExpandAll(nodes, Root)
       IN  IF ns[Root].expanded = <<>>
           THEN /\ failed' = "sort_root_children"
                /\ nodes' = ns
           ELSE /\ nodes' = [ns EXCEPT ![Root].expanded = SortBody(ns, color, ns[Root].expanded)]
                /\ UNCHANGED failed
    /\ probe' = [probe EXCEPT !.last = NoLast]
    /\ UNCHANGED <<th, game, nodecount, started, ghost>>

\* get_best_root_child(color) on the root: with no child to return the
\* assertion fails, or without assertions the end iterator is dereferenced
PolicyBest(color) ==
    /\ Running
    /\ nodes' = ExpandAll(nodes, Root)
    /\ IF nodes'[Root].expanded = <<>>
       THEN /\ failed' \in {"get_best_root_child", "dereference of end()"}
            /\ probe' = [probe EXCEPT !.last = [NoLast EXCEPT !.op = "get_best_root_child", !.color = color]]
       ELSE /\ probe' = [probe EXCEPT !.last = [NoLast EXCEPT !.op = "get_best_root_child", !.color = color,
                                                          !.result = MaxElement(nodes', color, nodes'[Root].expanded)]]
            /\ UNCHANGED failed
    /\ UNCHANGED <<th, game, nodecount, started, ghost>>

\* get_nopass_child(state) on the root
PolicyNoPass(eyes) ==
    /\ Running
    /\ nodes' = ExpandAll(nodes, Root)
    /\ probe' = [probe EXCEPT !.last = [NoLast EXCEPT !.result = FirstNoPass(nodes', nodes'[Root].expanded, eyes, 0)]]
    /\ UNCHANGED <<th, game, nodecount, started, ghost, failed>>

\* randomize_first_proportionally on the root, the generator giving pick
PolicyRandomize(pick) ==
    /\ Running
    /\ LET e == nodes[Root].expanded
           index == PickIndex(nodes, e, pick)
       IN  /\ nodes' = [nodes EXCEPT ![Root].expanded = RandomizeBody(e, index)]
           /\ probe' = [probe EXCEPT !.last = [NoLast EXCEPT !.op = "randomize_first_proportionally", !.pick = pick,
                                                          !.result = index, !.before = e]]
    /\ UNCHANGED <<th, game, nodecount, started, ghost, failed>>

PolicyNext ==
    \/ PolicyCreate
    \/ \E superko \in Superkos : PolicyKill(superko)
    \/ \E dirichlet_vector \in GammaSamples(Len(nodes[Root].child_scores)) : PolicyNoise(dirichlet_vector)
    \/ \E color \in Colors : PolicySelect(color)
    \/ \E id \in DOMAIN nodes \ {Root}, eval \in WinrateChoices : PolicyVisit(id, eval)
    \/ PolicyExpandAll
    \/ \E color \in Colors : PolicySort(color)
    \/ \E color \in Colors : PolicyBest(color)
    \/ \E eyes \in EyeSets : PolicyNoPass(eyes)
    \/ \E pick \in Draws(Accum(nodes, nodes[Root].expanded, Len(nodes[Root].expanded))) : PolicyRandomize(pick)

SpecPolicy == PolicyInit /\ [][PolicyNext]_vars

\* C11: the materialized children of a node are never more than the entries
\* of its child list, whatever operations were applied
C11_ExpandedWithinChildList ==
    \A id \in DOMAIN nodes : Len(nodes[id].expanded) <= Len(nodes[id].child_scores)

\* every child materialized, sorted, and a kill_superkos then refused
C11_Witness ==
    /\ Len(nodes[Root].expanded) = 3 /\ Len(nodes[Root].child_scores) = 3
    /\ failed = "kill_superkos"
    /\ nodes[nodes[Root].expanded[1]].move # nodes[Root].child_scores[1][1]

\* the materialized children of the root after the last operation
Kids == nodes[Root].expanded

\* get_best_root_child has just returned child number probe.last.result
BestReturned == probe.last.op = "get_best_root_child" /\ failed = "none"

\* the children that have the visits of child a
TiedOnVisits(a) == {b \in SeqRange(Kids) : nodes[b].visits = nodes[a].visits}

\* the children that have the visits and the eval of child a
TiedOnEval(a, color) == {b \in TiedOnVisits(a) : node_get_eval(nodes[b], color) = node_get_eval(nodes[a], color)}

\* C13 as stated: get_best_root_child(color) returns a child of maximal
\* visits, among those one of highest get_eval(color), and among those tied
\* on both one of highest prior
C13_BestByVisitsEvalPrior ==
    BestReturned =>
        LET r == At(Kids, probe.last.result)
            color == probe.last.color
        IN  /\ \A b \in SeqRange(Kids) : nodes[b].visits <= nodes[r].visits
            /\ \A b \in TiedOnVisits(r) : ~RLt(node_get_eval(nodes[r], color), node_get_eval(nodes[b], color))
            /\ \A b \in TiedOnEval(r, color) : ~RLt(nodes[r].score, nodes[b].score)

\* C13 amended: a child of maximal visits; among children tied on non-zero
\* visits one of highest get_eval(color), among children tied on zero visits
\* one of highest prior; among children still tied the first in the order of
\* the materialized children
C13_BestByNodeComp ==
    BestReturned =>
        LET r == At(Kids, probe.last.result)
            color == probe.last.color
            key(b) == IF nodes[r].visits = 0 THEN nodes[b].score ELSE node_get_eval(nodes[b], color)
        IN  /\ \A b \in SeqRange(Kids) : nodes[b].visits <= nodes[r].visits
            /\ \A b \in TiedOnVisits(r) : ~RLt(key(r), key(b))
            /\ \A i \in 0..probe.last.result - 1 :
                  At(Kids, i) \in TiedOnVisits(r) => RLt(key(At(Kids, i)), key(r))

\* the child returned is tied on non-zero visits with a child of lower eval
\* and with a child of equal eval and higher prior
C13_Witness ==
    /\ BestReturned
    /\ LET r == At(Kids, probe.last.result)
       IN  /\ nodes[r].visits > 0
           /\ \E b \in TiedOnVisits(r) : RLt(node_get_eval(nodes[b], probe.last.color), node_get_eval(nodes[r], probe.last.color))
           /\ \E b \in TiedOnEval(r, probe.last.color) : RLt(nodes[r].score, nodes[b].score)

\* randomize_first_proportionally has just returned
Randomized == probe.last.op = "randomize_first_proportionally" /\ failed = "none"

\* V: the visits of the materialized children
TotalVisits == Accum(nodes, Kids, Len(Kids))

\* C14: with V > 0 the chosen child is the only child whose cumulative visit
\* interval holds the draw, visits_i of the V draws choose child i, and the
\* call swaps the chosen child with the first and moves no other child
C14_ProportionalChoice ==
    (Randomized /\ TotalVisits > 0) =>
        LET e == probe.last.before
            chosen == probe.last.result
        IN  /\ \A i \in 0..Len(e) - 1 :
                  (Accum(nodes, e, i) <= probe.last.pick /\ probe.last.pick < Accum(nodes, e, i + 1)) <=> i = chosen
            /\ \A i \in 0..Len(e) - 1 :
                  Cardinality({pick \in 0..TotalVisits - 1 : PickIndex(nodes, e, pick) = i}) = nodes[At(e, i)].visits
            /\ nodes[At(e, chosen)].visits > 0
            /\ Len(Kids) = Len(e)
            /\ At(Kids, 0) = At(e, chosen)
            /\ At(Kids, chosen) = At(e, 0)
            /\ \A i \in 0..Len(e) - 1 : i \notin {0, chosen} => At(Kids, i) = At(e, i)

\* a draw that chose the third of three children, one of them without visits
C14_Witness ==
    /\ Randomized /\ TotalVisits > 0
    /\ Len(Kids) = 3 /\ probe.last.result = 2
    /\ \E b \in SeqRange(Kids) : nodes[b].visits = 0

\* the most-visited materialized child was at position 0 before the call
ArgmaxWasFirst ==
    /\ probe.last.before # <<>>
    /\ \A b \in SeqRange(probe.last.before) : nodes[b].visits <= nodes[At(probe.last.before, 0)].visits

\* C15 as stated: with the most-visited child at position 0 the order of the
\* materialized children is unchanged for every draw
C15_NoOpWhenArgmaxFirst ==
    (Randomized /\ ArgmaxWasFirst) => Kids = probe.last.before

\* C15 amended: the order is unchanged exactly when the draw is below the
\* visits of the child at position 0, or no child has a visit
C15_NoOpWhenFirstDrawn ==
    Randomized =>
        (Kids = probe.last.before <=>
            (TotalVisits = 0 \/ probe.last.pick < nodes[At(probe.last.before, 0)].visits))

\* the most-visited child was first and the draw chose another child
C15_Witness ==
    /\ Randomized /\ ArgmaxWasFirst
    /\ probe.last.result > 0
    /\ nodes[At(probe.last.before, 0)].visits > nodes[At(Kids, 0)].visits

\* C18: a root whose position is finished gets no children, and asking it
\* for its best child does not fail
C18_TerminalRootHasBestMove ==
    get_passes(Root) >= 2 =>
        /\ nodes[Root].child_scores = <<>> /\ ~nodes[Root].has_children
        /\ failed \notin {"get_best_root_child", "dereference of end()"}

-----------------------------------------------------------------------------
(* The preparation of the root: create_children, then kill_superkos and *)
(* dirichlet_noise on the children that are all still latent            *)

\* the policy outputs, zero included
PrepPriors == [Moves -> {Zero, Rat(1, 4), Rat(1, 2)}]

\* draws of the gamma distribution for child_cnt children
GammaVectors(child_cnt) == [1..child_cnt -> {Zero, One}]

PrepInit ==
    /\ nodes = [x \in {Root} |-> NewNode(PASS, Zero, Zero)]
    /\ th = [t \in Threads |-> IdleThread]
    /\ game \in [passes : {0, 2}, boardsize : {19}, cfg_puct : {One}, priors : PrepPriors,
                 winrate : {One}, illegal : {{}, {2}}]
    /\ nodecount = 0
    /\ started = 0
    /\ ghost = [completed |-> 0, stopped |-> 0, evals |-> [x \in {Root} |-> 0],
                trues |-> [x \in {Root} |-> 0], leaf |-> [x \in {Root} |-> 0]]
    /\ failed = "none"
    /\ probe = [visits |-> 0, noise |-> 0, last |-> NoLast]

\* enter_node(1, 1) on the root: statistics kept from an earlier search are
\* installed before the root is prepared
PrepEnter ==
    /\ Running /\ nodes[Root].virtual_loss = 0
    /\ nodes' = [nodes EXCEPT ![Root] = EnterBody(nodes[Root], 1, One)]
    /\ probe' = [probe EXCEPT !.last = NoLast]
    /\ UNCHANGED <<th, game, nodecount, started, ghost, failed>>

PrepNext ==
    \/ PolicyCreate
    \/ PrepEnter
    \/ \E superko \in SUBSET Vertices : PolicyKill(superko)
    \/ \E dirichlet_vector \in GammaVectors(Len(nodes[Root].child_scores)) : PolicyNoise(dirichlet_vector)

SpecPrep == PrepInit /\ [][PrepNext]_vars

\* the moves of a child list
MovesOf(scores) == {scores[i][1] : i \in 1..Len(scores)}

\* kill_superkos has just returned
Killed == probe.last.op = "kill_superkos" /\ failed = "none"

\* C12: after kill_superkos on a node without materialized child the list
\* holds a move other than PASS only if playing it is no superko repetition,
\* and holds PASS if it held PASS before
C12_SuperkosPruned ==
    (Killed /\ nodes[Root].expanded = <<>>) =>
        /\ \A m \in MovesOf(nodes[Root].child_scores) : m # PASS => m \notin probe.last.superko
        /\ PASS \in MovesOf(probe.last.scores) => PASS \in MovesOf(nodes[Root].child_scores)

\* a kill_superkos that pruned a vertex and kept a vertex and the pass
C12_Witness ==
    /\ Killed
    /\ Len(probe.last.scores) = 3 /\ MovesOf(nodes[Root].child_scores) = {PASS, 2}
    /\ probe.last.superko = {1}

\* create_children has just returned true
Created == probe.last.op = "create" /\ probe.last.result = 1

\* the moves of the root position that are legal
LegalMoves == {m \in Moves : is_move_legal(Root, game.illegal, m)}

RECURSIVE PriorMass(_)
\* the evaluator's prior mass on a set of moves
PriorMass(moves) ==
    IF moves = {} THEN Zero
    ELSE LET m == CHOOSE x \in moves : TRUE IN RAdd(game.priors[m], PriorMass(moves \ {m}))

\* the priors of a child list
PriorsOf(scores) == [i \in 1..Len(scores) |-> scores[i][2]]

\* C19: after create_children returned true the installed priors sum to 1 if
\* the evaluator's prior mass on the legal moves exceeds the smallest normal
\* float (here: is positive), and are the evaluator's priors otherwise
C19_PriorsNormalized ==
    Created =>
        IF RLt(Zero, PriorMass(LegalMoves))
        THEN RSum(PriorsOf(nodes[Root].child_scores)) = One
        ELSE \A i \in 1..Len(nodes[Root].child_scores) :
                nodes[Root].child_scores[i][2] = game.priors[nodes[Root].child_scores[i][1]]

\* an expansion that left out an illegal move of positive prior and
\* re-normalized the two legal ones, which had different priors
C19_Witness ==
    /\ Created
    /\ game.illegal = {2} /\ RLt(Zero, game.priors[2])
    /\ Len(nodes[Root].child_scores) = 2
    /\ nodes[Root].child_scores[1][2] = Rat(2, 3)

\* dirichlet_noise has just returned
Noised == probe.last.op = "dirichlet_noise" /\ failed = "none"

\* C20: dirichlet_noise on a node without materialized child makes the i-th
\* prior (1 - epsilon) * p_i + epsilon * eta_i, eta being the gamma draws
\* divided by their sum, leaves every prior as it was when that sum is below
\* the smallest normal float (here: zero), and keeps the number, the order
\* and the moves of the children
C20_NoiseMixesPriors ==
    (Noised /\ nodes[Root].expanded = <<>>) =>
        LET old == probe.last.scores
            new == nodes[Root].child_scores
            gamma == probe.last.gamma
            sum == RSum(gamma)
        IN  /\ Len(new) = Len(old)
            /\ \A i \in 1..Len(old) :
                  /\ new[i][1] = old[i][1]
                  /\ new[i][2] = IF RLt(Zero, sum)
                                 THEN RAdd(RMul(RSub(One, Epsilon), old[i][2]), RMul(Epsilon, RDiv(gamma[i], sum)))
                                 ELSE old[i][2]

\* noise from draws that sum to 2 on three children
C20_Witness ==
    /\ Noised
    /\ Len(nodes[Root].child_scores) = 3
    /\ RSum(probe.last.gamma) = RInt(2)
    /\ nodes[Root].child_scores # probe.last.scores

-----------------------------------------------------------------------------
(* Network::gather_features: the input planes of a position *)

\* the side of the board (19 in the source)
BoardSide == 2
\* the moves a game record holds at most
MaxPlies == 3
\* history planes per side
HistoryPlanes == 8

\* the points of the board as the indices idx = j * side + i
Cells == 0..BoardSide * BoardSide - 1
EMPTY == "empty"

\* the side that plays move number k (from 1): Black starts
Mover(k) == IF k % 2 = 1 THEN BLACK ELSE WHITE

\* the board after the first k moves of the record: a stone stays where it
\* was played
BoardAfter(played, k) ==
    [idx \in Cells |-> IF \E i \in 1..k : played[i] = idx
                       THEN Mover(CHOOSE i \in 1..k : played[i] = idx)
                       ELSE EMPTY]

\* GameState::history(h) is not null: the position h plies back exists
HistoryExists(played, h) == h <= Len(played)

\* GameState::history(h)->board
HistoryBoard(played, h) == BoardAfter(played, Len(played) - h)

\* state->board, the current position
CurrentBoard(played) == BoardAfter(played, Len(played))

\* state->get_to_move()
ToMove(played) == Mover(Len(played) + 1)

\* Network::gather_features: the bits that are set in each of the 18 planes;
\* the loop over h stops at the first missing history position, and the
\* colour of a point is read from state->board
gather_features(played) ==
    [c \in 0..2 * HistoryPlanes + 1 |->
        IF c < HistoryPlanes
        THEN IF HistoryExists(played, c)
             THEN {idx \in Cells : CurrentBoard(played)[idx] = ToMove(played)} ELSE {}
        ELSE IF c < 2 * HistoryPlanes
        THEN IF HistoryExists(played, c - HistoryPlanes)
             THEN {idx \in Cells : CurrentBoard(played)[idx] \notin {EMPTY, ToMove(played)}} ELSE {}
        ELSE IF (c = 2 * HistoryPlanes) = (ToMove(played) = BLACK) THEN Cells ELSE {}]

NoPlanes == [done |-> FALSE, planes |-> <<>>]

FeaturesInit ==
    /\ Fresh
    /\ nodes = [x \in {Root} |-> NewNode(PASS, Zero, Zero)]
    /\ game = [played |-> <<>>]
    /\ probe = NoPlanes

\* a move is played: a stone on an empty point, or a pass
PlayMove(move) ==
    /\ Len(game.played) < MaxPlies
    /\ IF move = PASS THEN TRUE ELSE CurrentBoard(game.played)[move] = EMPTY
    /\ game' = [game EXCEPT !.played = Append(game.played, move)]
    /\ probe' = NoPlanes
    /\ UNCHANGED <<nodes, th, nodecount, started, ghost, failed>>

\* gather_features on the current position
GatherFeatures ==
    /\ ~probe.done
    /\ probe' = [done |-> TRUE, planes |-> gather_features(game.played)]
    /\ UNCHANGED <<nodes, th, game, nodecount, started, ghost, failed>>

FeaturesNext ==
    \/ \E move \in Cells \cup {PASS} : PlayMove(move)
    \/ GatherFeatures

SpecFeatures == FeaturesInit /\ [][FeaturesNext]_vars

\* C16: for every history ply h in 0..7 that exists, plane h holds exactly
\* the points where the position at ply h has a stone of the side to move and
\* plane 8 + h those where it has a stone of the opponent; the planes of the
\* plies that do not exist are empty
C16_PlanesShowHistory ==
    probe.done =>
        \A h \in 0..HistoryPlanes - 1 :
            IF HistoryExists(game.played, h)
            THEN /\ probe.planes[h] = {idx \in Cells : HistoryBoard(game.played, h)[idx] = ToMove(game.played)}
                 /\ probe.planes[HistoryPlanes + h] =
                       {idx \in Cells : HistoryBoard(game.played, h)[idx] \notin {EMPTY, ToMove(game.played)}}
            ELSE probe.planes[h] = {} /\ probe.planes[HistoryPlanes + h] = {}

-----------------------------------------------------------------------------
(* Network::get_scored_moves_internal and Network::rotate_nn_idx under the *)
(* eight symmetries of the board                                            *)

\* the bits an input plane holds at most
MaxBits == 1

Symmetries == 0..7

\* rotate_nn_idx flipping first and exchanging x and y afterwards
RotateFlipFirst(vertex, symmetry) ==
    LET x == vertex % BoardSide
        y == vertex \div BoardSide
        sym == IF symmetry >= 4 THEN symmetry - 4 ELSE symmetry
        newx == IF sym \in {0, 1} THEN x ELSE BoardSide - x - 1
        newy == IF sym \in {0, 2} THEN y ELSE BoardSide - y - 1
    IN  IF symmetry >= 4 THEN (newx * BoardSide) + newy ELSE (newy * BoardSide) + newx

\* Network::rotate_nn_idx
rotate_nn_idx(vertex, symmetry) ==
    LET x0 == vertex % BoardSide
        y0 == vertex \div BoardSide
        x == IF symmetry >= 4 THEN y0 ELSE x0
        y == IF symmetry >= 4 THEN x0 ELSE y0
        sym == IF symmetry >= 4 THEN symmetry - 4 ELSE symmetry
        newx == IF sym \in {0, 1} THEN x ELSE BoardSide - x - 1
        newy == IF sym \in {0, 2} THEN y ELSE BoardSide - y - 1
    IN  (newy * BoardSide) + newx

\* input_data[(c * height + h) * width + w] for idx = h * width + w: the bit
\* of plane c at the rotated index
InputData(planes, rotation, c, idx) == rotate_nn_idx(idx, rotation) \in planes[c]

RECURSIVE CellCode(_, _, _, _)
\* a pointwise evaluator: the output at a cell is the number that the bits
\* of the input planes at that cell spell, planes c and above counted
CellCode(planes, rotation, idx, c) ==
    IF c > 2 * HistoryPlanes + 1 THEN 0
    ELSE (IF InputData(planes, rotation, c, idx) THEN 2 ^ c ELSE 0) + CellCode(planes, rotation, idx, c + 1)

\* the policy output for the point with index idx
Outputs(planes, rotation, idx) == CellCode(planes, rotation, idx, 0)

\* the policy output read at the index itself, the symmetry forgotten
OutputVertexDirect(idx, rotation) == idx

\* rot_idx: the board point the output with index idx belongs to
OutputVertex(idx, rotation) == rotate_nn_idx(idx, rotation)

RECURSIVE ScoredFrom(_, _, _, _)
\* the result loop of get_scored_moves_internal from index idx on: outputs on
\* empty points, then the pass
ScoredFrom(stones, planes, rotation, idx) ==
    IF idx >= BoardSide * BoardSide THEN << <<0, PASS>> >>
    ELSE (IF OutputVertex(idx, rotation) \notin stones
          THEN << <<Outputs(planes, rotation, idx), OutputVertex(idx, rotation)>> >>
          ELSE <<>>) \o ScoredFrom(stones, planes, rotation, idx + 1)

\* Network::get_scored_moves_internal(state, planes, rotation).first
get_scored_moves_internal(stones, planes, rotation) == ScoredFrom(stones, planes, rotation, 0)

\* the sets of at most n cells
CellSets(n) == {cs \in SUBSET Cells : Cardinality(cs) <= n}

\* input planes for a board with the given stones: the stones of the side to
\* move now and one ply back, the stones of the opponent, and the plane of
\* the side to move
PlaneChoices(stones) ==
    {[c \in 0..2 * HistoryPlanes + 1 |->
        IF c = 0 THEN ours
        ELSE IF c = 1 THEN before
        ELSE IF c = HistoryPlanes THEN stones \ ours
        ELSE IF c = 2 * HistoryPlanes THEN Cells ELSE {}] :
        ours \in SUBSET stones, before \in CellSets(MaxBits)}

NoScores == [done |-> FALSE, s |-> 0, t |-> 0, first |-> <<>>, second |-> <<>>]

SymmetryInit ==
    /\ Fresh
    /\ nodes = [x \in {Root} |-> NewNode(PASS, Zero, Zero)]
    /\ \E stones \in CellSets(1) : \E planes \in PlaneChoices(stones) :
          game = [stones |-> stones, planes |-> planes]
    /\ probe = NoScores

\* get_scored_moves with DIRECT s and with DIRECT t on the same position
ScoreTwice(s, t) ==
    /\ ~probe.done
    /\ probe' = [done |-> TRUE, s |-> s, t |-> t,
                 first |-> get_scored_moves_internal(game.stones, game.planes, s),
                 second |-> get_scored_moves_internal(game.stones, game.planes, t)]
    /\ UNCHANGED <<nodes, th, game, nodecount, started, ghost, failed>>

SymmetryNext == \E s \in Symmetries, t \in Symmetries : s < t /\ ScoreTwice(s, t)

SpecSymmetry == SymmetryInit /\ [][SymmetryNext]_vars

\* the priors a scored list attaches to vertex v
PriorsAt(scored, v) == {scored[i][1] : i \in {j \in 1..Len(scored) : scored[j][2] = v}}

\* C17: with a pointwise evaluator get_scored_moves attaches the same prior
\* to every board vertex under DIRECT s and under DIRECT t
C17_PriorsIndependentOfSymmetry ==
    probe.done =>
        \A v \in Cells :
            /\ PriorsAt(probe.first, v) = PriorsAt(probe.second, v)
            /\ Cardinality(PriorsAt(probe.first, v)) = IF v \in game.stones THEN 0 ELSE 1

\* two different symmetries that list the vertices in different orders, on
\* planes that give different outputs at different empty points
C17_Witness ==
    /\ probe.done /\ probe.s # probe.t /\ probe.first # probe.second
    /\ \E v, w \in Cells : PriorsAt(probe.first, v) # PriorsAt(probe.first, w) /\ v \notin game.stones /\ w \notin game.stones

-----------------------------------------------------------------------------
(* create_children called by several threads on one node                   *)

\* calls of create_children
MaxCreates == 3

\* the nodes create_children is called on: the root, the node after a pass
\* and the node after a stone on vertex 1
Targets == {Root, <<PASS>>, <<1>>}

\* board sizes of the position: Network::get_scored_moves answers for 19 only
BoardSizes == {9, 19}

\* what the caller's eval variable holds when it makes the call
CallerEval == Rat(1, 2)

\* the node before anybody called create_children on it
TargetNode(id) == NewNode(IF id = Root THEN PASS ELSE Last(id), Zero, Zero)

ExpansionInit ==
    /\ \E id \in Targets :
          /\ nodes = [x \in {id} |-> TargetNode(id)]
          /\ probe = [target |-> id, raw |-> <<>>, calls |-> 0]
          /\ ghost = [completed |-> 0, stopped |-> 0, evals |-> [x \in {id} |-> 0],
                      trues |-> [x \in {id} |-> 0], leaf |-> [x \in {id} |-> 0]]
    /\ th = [t \in Threads |-> IdleThread]
    /\ game \in [passes : {0, 2}, boardsize : BoardSizes, cfg_puct : {One}, priors : [Moves -> PriorChoices],
                 winrate : WinrateChoices, illegal : {{}, {2}}]
    /\ nodecount = 0
    /\ started = 0
    /\ failed = "none"

\* a thread calls create_children(nodecount, state, eval) on the node
CallCreate(t) ==
    /\ Running /\ th[t].pc = "idle" /\ probe.calls < MaxCreates
    /\ th' = [th EXCEPT ![t] = [IdleThread EXCEPT !.pc = "create", !.stack = <<probe.target>>, !.eval = CallerEval]]
    /\ probe' = [probe EXCEPT !.calls = probe.calls + 1]
    /\ UNCHANGED <<nodes, game, nodecount, started, ghost, failed>>

\* the evaluator call of the expanding thread, the list it returned kept
EvaluateChildren(t) ==
    /\ Running /\ th[t].pc = "cc_eval"
    /\ \E raw \in RawNetlists(Top(t), game.priors) :
          /\ th' = [th EXCEPT ![t].pc = "cc_link",
                              ![t].eval = NetEval(Top(t), RawWinrate(game.winrate)),
                              ![t].nodelist = SortNodelist(Normalize(FilterLegal(raw, Top(t), game.illegal)))]
          /\ probe' = [probe EXCEPT !.raw = raw]
    /\ ghost' = [ghost EXCEPT !.evals = Bump(ghost.evals, Top(t))]
    /\ UNCHANGED <<nodes, game, nodecount, started, failed>>

\* the caller takes the result of create_children and goes on
ReturnCreate(t) ==
    /\ Running /\ th[t].pc \in {"backup", "cc_false"}
    /\ th' = [th EXCEPT ![t] = IdleThread]
    /\ UNCHANGED <<nodes, game, nodecount, started, ghost, failed, probe>>

\* expand(child) on the node, as uct_select_child calls it
MaterializeChild(child) ==
    /\ Running /\ nodes[probe.target].has_children
    /\ child >= Len(nodes[probe.target].expanded)
    /\ nodes' = Expand(nodes, probe.target, child)
    /\ UNCHANGED <<th, game, nodecount, started, ghost, failed, probe>>

\* enter_node(0, 0) on a materialized child that nobody entered yet
EnterChild(id) ==
    /\ Running /\ nodes[id].virtual_loss = 0
    /\ nodes' = [nodes EXCEPT ![id] = EnterBody(nodes[id], 0, Zero)]
    /\ UNCHANGED <<th, game, nodecount, started, ghost, failed, probe>>

ExpansionNext ==
    \/ \E t \in Threads : CallCreate(t)
    \/ \E t \in Threads : CreateLock(t)
    \/ \E t \in Threads : EvaluateChildren(t)
    \/ \E t \in Threads : CreateLink(t)
    \/ \E t \in Threads : ReturnCreate(t)
    \/ \E child \in 0..Len(nodes[probe.target].child_scores) - 1 : MaterializeChild(child)
    \/ \E id \in DOMAIN nodes \ {probe.target} : EnterChild(id)

SpecExpansion == ExpansionInit /\ [][ExpansionNext]_vars

\* the node create_children is called on
Target == nodes[probe.target]

\* the threads whose call returned true and that did not go on yet
ReturnedTrue == {t \in Threads : th[t].pc = "backup"}

\* the threads whose call returned false and that did not go on yet
ReturnedFalse == {t \in Threads : th[t].pc = "cc_false"}

\* C22: on a position with passes >= 2 create_children returns false, the
\* evaluator is never invoked, the node stays as it was (has_children and
\* is_expanding false, child list empty), and nodecount and the eval
\* out-parameter are not written, with two threads calling concurrently
C22_FinishedGameNotExpanded ==
    get_passes(probe.target) >= 2 =>
        /\ Target = TargetNode(probe.target)
        /\ ~Target.has_children /\ ~Target.is_expanding /\ Target.child_scores = <<>>
        /\ nodecount = 0
        /\ ghost.evals[probe.target] = 0
        /\ \A t \in Threads : th[t].pc \in {"idle", "create", "cc_false"}
        /\ \A t \in ReturnedFalse : th[t].eval = CallerEval

C22_Witness ==
    /\ get_passes(probe.target) >= 2
    /\ ReturnedFalse = Threads
    /\ probe.calls = MaxCreates

\* C23: whenever create_children returned true, has_children is true and the
\* child list is not empty
C23_TrueReturnHasChildren ==
    \A t \in ReturnedTrue : Target.has_children /\ Target.child_scores # <<>>

\* C24: is_expanding and has_children are never set back to false, and
\* has_children is never true while is_expanding is false
C24_ExpansionMovesForward ==
    /\ [](\A id \in DOMAIN nodes : nodes[id].has_children => nodes[id].is_expanding)
    /\ [][\A id \in DOMAIN nodes :
             /\ nodes[id].is_expanding => nodes'[id].is_expanding
             /\ nodes[id].has_children => nodes'[id].has_children]_vars

C24_Witness ==
    /\ Target.has_children /\ Target.is_expanding
    /\ ReturnedFalse # {}
    /\ Len(Target.expanded) > 0

\* the evaluator's value for the target as the claim states it: v when Black
\* is to move, 1 - v when White is
BlackValue ==
    LET v == IF game.boardsize = 19 THEN game.winrate ELSE Zero
    IN  IF Len(probe.target) % 2 = 0 THEN v ELSE RSub(One, v)

\* C25: when create_children returns true the eval out-parameter is v for
\* Black to move and 1 - v for White to move, and every child, latent or
\* materialized, reports that value as its eval while visits + virtual_loss
\* is 0
C25_EvalFromBlackAndInherited ==
    /\ \A t \in ReturnedTrue : th[t].eval = BlackValue
    /\ Target.has_children =>
          \A child \in 0..Len(Target.child_scores) - 1 :
             LET stats == child_get_stats(nodes, probe.target, child)
             IN  stats.visits + stats.virtual_loss = 0 =>
                    /\ stats.init_eval = BlackValue
                    /\ get_eval(stats, BLACK) = BlackValue
                    /\ get_eval(stats, WHITE) = RSub(One, BlackValue)

C25_Witness ==
    /\ ReturnedTrue # {}
    /\ Len(probe.target) % 2 = 1 /\ game.winrate = One
    /\ Len(Target.expanded) > 0 /\ Len(Target.expanded) < Len(Target.child_scores)
    /\ nodes[At(Target.expanded, 0)].virtual_loss = 0

\* the child list as create_children left it: a call returned true and no
\* child was materialized since
JustCreated == ReturnedTrue # {} /\ Target.has_children /\ Target.expanded = <<>>

\* the child list is in non-increasing order of prior
PriorsDescend ==
    \A i, j \in 1..Len(Target.child_scores) :
       i < j => ~RLt(Target.child_scores[i][2], Target.child_scores[j][2])

\* position of a move in the list the evaluator returned
RawIndex(move) == CHOOSE k \in 1..Len(probe.raw) : probe.raw[k][2] = move

\* C26 as stated: right after create_children returned true the child list
\* is in non-increasing order of prior and children with equal priors are in
\* the order in which the evaluator returned them
C26_SortedStableInEvaluatorOrder ==
    JustCreated =>
        /\ PriorsDescend
        /\ \A i, j \in 1..Len(Target.child_scores) :
              (i < j /\ Target.child_scores[i][2] = Target.child_scores[j][2]) =>
                  RawIndex(Target.child_scores[i][1]) < RawIndex(Target.child_scores[j][1])

\* C26 amended: right after create_children returned true the child list is
\* in non-increasing order of prior and children with equal priors are in
\* decreasing order of vertex number, whatever order the evaluator used
C26_SortedTiesByVertex ==
    JustCreated =>
        /\ PriorsDescend
        /\ \A i, j \in 1..Len(Target.child_scores) :
              (i < j /\ Target.child_scores[i][2] = Target.child_scores[j][2]) =>
                  Target.child_scores[i][1] > Target.child_scores[j][1]

C26_Witness ==
    /\ JustCreated
    /\ Len(Target.child_scores) = 3
    /\ Target.child_scores[1][2] = Target.child_scores[2][2]
    /\ RawIndex(Target.child_scores[1][1]) > RawIndex(Target.child_scores[2][1])

\* C30: a call of create_children that returns false because the children
\* exist or because another thread is expanding changes nothing: the node
\* (child list, is_expanding, has_children), nodecount and the eval
\* out-parameter keep their values
C30_LosingCallChangesNothing ==
    /\ [](get_passes(probe.target) < 2 => \A t \in ReturnedFalse : th[t].eval = CallerEval)
    /\ [][\A t \in Threads :
             (get_passes(probe.target) < 2 /\ th[t].pc = "create" /\ th'[t].pc = "cc_false") =>
                 /\ nodes' = nodes
                 /\ nodecount' = nodecount
                 /\ th'[t].eval = th[t].eval]_vars

C30_Witness ==
    /\ get_passes(probe.target) < 2
    /\ \E t, u \in Threads : th[t].pc = "cc_false" /\ th[u].pc = "cc_link" /\ ~Target.has_children

-----------------------------------------------------------------------------
(* Properties of the child list and the materialized children              *)

\* C27: the materialized children are a prefix of the child list and aligned
\* with it: materialized child i has the move and the prior of entry i
C27_ExpandedAlignedWithChildList ==
    /\ Len(nodes[Root].expanded) <= Len(nodes[Root].child_scores)
    /\ \A i \in 0..Len(nodes[Root].expanded) - 1 :
          /\ nodes[At(nodes[Root].expanded, i)].move = At(nodes[Root].child_scores, i)[1]
          /\ nodes[At(nodes[Root].expanded, i)].score = At(nodes[Root].child_scores, i)[2]

RECURSIVE IsSubsequence(_, _)
\* the entries of s are entries of r, in the order they have in r
IsSubsequence(s, r) ==
    IF s = <<>> THEN TRUE
    ELSE IF r = <<>> THEN FALSE
    ELSE IF Head(s) = Head(r) THEN IsSubsequence(Tail(s), Tail(r))
    ELSE IsSubsequence(s, Tail(r))

\* C28: kill_superkos changes only the membership of the child list: the
\* surviving entries keep their priors and their relative order, every other
\* field of the node (visits, black_evals, virtual_loss, valid, has_children,
\* the init eval) is unchanged, and no node is made invalid
C28_KillOnlyRemovesEntries ==
    probe.last.op = "kill_superkos" =>
        /\ IsSubsequence(nodes[Root].child_scores, probe.last.before.child_scores)
        /\ [nodes[Root] EXCEPT !.child_scores = probe.last.before.child_scores] = probe.last.before
        /\ \A id \in DOMAIN nodes : nodes[id].valid

\* a kill_superkos that pruned one entry of three on a root with statistics
C28_Witness ==
    /\ Killed
    /\ Len(probe.last.before.child_scores) = 3 /\ Len(nodes[Root].child_scores) = 2
    /\ nodes[Root].visits = 1 /\ nodes[Root].virtual_loss = VIRTUAL_LOSS_COUNT
    /\ RSum([i \in 1..2 |-> nodes[Root].child_scores[i][2]]) # One

\* C29: kill_superkos and dirichlet_noise called on a node with a
\* materialized child fail their assertion and change no child entry; they
\* change the child list only when no child is materialized
C29_PreparedBeforeMaterialized ==
    /\ (probe.last.op \in {"kill_superkos", "dirichlet_noise"} /\ nodes[Root].expanded # <<>>) =>
          /\ failed = probe.last.op
          /\ nodes[Root].child_scores = probe.last.scores
    /\ (probe.last.op \in {"kill_superkos", "dirichlet_noise"} /\ nodes[Root].child_scores # probe.last.scores) =>
          /\ failed = "none"
          /\ nodes[Root].expanded = <<>>
    /\ failed \in {"kill_superkos", "dirichlet_noise"} => nodes[Root].expanded # <<>>

\* a dirichlet_noise refused after the children were materialized
C29_Witness ==
    /\ probe.last.op = "dirichlet_noise" /\ failed = "dirichlet_noise"
    /\ Len(nodes[Root].expanded) = 3
    /\ probe.last.gamma # <<>> /\ RSum(probe.last.gamma) # Zero

-----------------------------------------------------------------------------
(* The node mutex: which operations of UCTNode hold it while they touch    *)
(* the fields of the node                                                  *)

\* operations called in the locking specification
MaxOperations == 3

\* the public operations looked at
Operations ==
    {"uct_select_child", "get_best_root_child", "enter_node",
     "expand_all", "get_nopass_child", "get_first_child", "first_visit"}

\* the operations that begin with LOCK(m_nodemutex, lock)
LockingOperations == {"uct_select_child", "get_best_root_child", "enter_node"}

\* the fields the claim calls non-atomic
GuardedFields == {"visits", "blackevals", "child_scores", "expanded", "is_expanding"}

\* the fields of the node an operation reads
FieldsRead(op) ==
    CASE op = "uct_select_child" -> {"child_scores", "expanded", "child_init_eval"}
      [] op = "get_best_root_child" -> {"child_scores", "expanded", "child_init_eval"}
      [] op = "enter_node" -> {"visits", "blackevals", "virtual_loss"}
      [] op = "expand_all" -> {"child_scores", "expanded", "child_init_eval"}
      [] op = "get_nopass_child" -> {"child_scores", "expanded", "child_init_eval"}
      [] op = "get_first_child" -> {"expanded"}
      [] op = "first_visit" -> {"visits"}

\* the fields of the node an operation writes
FieldsWritten(op) ==
    CASE op = "uct_select_child" -> {"child_scores", "expanded"}
      [] op = "get_best_root_child" -> {"child_scores", "expanded"}
      [] op = "enter_node" -> {"visits", "blackevals", "virtual_loss"}
      [] op = "expand_all" -> {"child_scores", "expanded"}
      [] op = "get_nopass_child" -> {"child_scores", "expanded"}
      [] op = "get_first_child" -> {}
      [] op = "first_visit" -> {}

\* the tree an operation on the root makes of tree ns
OperationEffect(op, ns) ==
    CASE op = "uct_select_child" -> Expand(ns, Root, UctBest(ns, Root, BLACK, ParentVisits(ns, Root)))
      [] op \in {"get_best_root_child", "expand_all", "get_nopass_child"} -> ExpandAll(ns, Root)
      [] op = "enter_node" -> [ns EXCEPT ![Root] = EnterBody(ns[Root], 1, One)]
      [] OTHER -> ns

\* the tree after an operation that read tree base stores what it computed:
\* the fields it writes are stored, nodes it allocated are added
StoreEffect(op, base) ==
    LET eff == OperationEffect(op, base)
    IN  [x \in DOMAIN nodes \cup DOMAIN eff |->
            IF x = Root
            THEN IF "expanded" \in FieldsWritten(op)
                 THEN [nodes[Root] EXCEPT !.child_scores = eff[Root].child_scores, !.expanded = eff[Root].expanded]
                 ELSE IF "visits" \in FieldsWritten(op)
                 THEN [nodes[Root] EXCEPT !.visits = eff[Root].visits, !.blackevals = eff[Root].blackevals,
                                          !.virtual_loss = eff[Root].virtual_loss]
                 ELSE nodes[Root]
            ELSE IF x \in DOMAIN nodes THEN nodes[x] ELSE eff[x]]

IdleCaller == [pc |-> "idle", op |-> "none", seen |-> <<>>]

\* the root of a search in progress: create_children has run
LockingInit ==
    /\ nodes = [x \in {Root} |->
                  LinkBody([NewNode(PASS, Zero, Zero) EXCEPT !.is_expanding = TRUE],
                           <<<<Rat(1, 2), 2>>, <<Rat(1, 4), 1>>, <<Rat(1, 4), PASS>>>>, One)]
    /\ th = [t \in Threads |-> IdleCaller]
    /\ game = [passes |-> 0, boardsize |-> 19, cfg_puct |-> One, priors |-> [m \in Moves |-> Rat(1, 4)],
               winrate |-> One, illegal |-> {}]
    /\ nodecount = 3
    /\ started = 0
    /\ ghost = [completed |-> 0, stopped |-> 0, evals |-> [x \in {Root} |-> 1],
                trues |-> [x \in {Root} |-> 1], leaf |-> [x \in {Root} |-> 1]]
    /\ failed = "none"
    /\ probe = [calls |-> 0]

\* a thread calls an operation on the root
CallOperation(t, op) ==
    /\ Running /\ th[t].pc = "idle" /\ probe.calls < MaxOperations
    /\ th' = [th EXCEPT ![t] = [pc |-> "called", op |-> op, seen |-> <<>>]]
    /\ probe' = [probe EXCEPT !.calls = probe.calls + 1]
    /\ UNCHANGED <<nodes, game, nodecount, started, ghost, failed>>

\* LOCK(m_nodemutex, lock) at the top of the operation, then its first reads
TakeMutex(t) ==
    /\ Running /\ th[t].pc = "called" /\ th[t].op \in LockingOperations
    /\ nodes[Root].mutex = NoThread
    /\ nodes' = [nodes EXCEPT ![Root].mutex = t]
    /\ th' = [th EXCEPT ![t].pc = "inside", ![t].seen = nodes]
    /\ UNCHANGED <<game, nodecount, started, ghost, failed, probe>>

\* an operation without LOCK begins with its first reads
StartUnlocked(t) ==
    /\ Running /\ th[t].pc = "called" /\ th[t].op \notin LockingOperations
    /\ th' = [th EXCEPT ![t].pc = "inside", ![t].seen = nodes]
    /\ UNCHANGED <<nodes, game, nodecount, started, ghost, failed, probe>>

\* did another thread store to the tree since this one read it
Disturbed(t) ==
    \E x \in DOMAIN nodes :
       IF x \notin DOMAIN th[t].seen THEN TRUE
       ELSE [nodes[x] EXCEPT !.mutex = NoThread] # [th[t].seen[x] EXCEPT !.mutex = NoThread]

\* the operation stores its results and returns, releasing the mutex if it
\* holds it.  When another thread stored in between, the accesses raced: the
\* operation stores what it computed from the tree it read or from the tree
\* as it is now, or the process fails
FinishOperation(t) ==
    /\ Running /\ th[t].pc = "inside"
    /\ \/ /\ \E base \in {nodes} \cup (IF Disturbed(t) THEN {[x \in DOMAIN th[t].seen |-> th[t].seen[x]]} ELSE {}) :
                nodes' = [StoreEffect(th[t].op, base) EXCEPT ![Root].mutex =
                             IF nodes[Root].mutex = t THEN NoThread ELSE nodes[Root].mutex]
          /\ UNCHANGED failed
       \/ /\ Disturbed(t) /\ FieldsWritten(th[t].op) # {}
          /\ failed' = "data race"
          /\ UNCHANGED nodes
    /\ th' = [th EXCEPT ![t] = IdleCaller]
    /\ UNCHANGED <<game, nodecount, started, ghost, probe>>

LockingNext ==
    \/ \E t \in Threads, op \in Operations : CallOperation(t, op)
    \/ \E t \in Threads : TakeMutex(t)
    \/ \E t \in Threads : StartUnlocked(t)
    \/ \E t \in Threads : FinishOperation(t)

SpecLocking == LockingInit /\ [][LockingNext]_vars

\* the threads inside an operation, between its first read and its return
InsideOperation == {t \in Threads : th[t].pc = "inside"}

\* C21: every read or write of a non-atomic field of the node by a public
\* operation happens while the calling thread holds the node's mutex, so no
\* two threads are inside operations on the same field with one writing it
C21_FieldsAccessedUnderMutex ==
    /\ \A t \in InsideOperation :
          (FieldsRead(th[t].op) \cup FieldsWritten(th[t].op)) \cap GuardedFields # {} => nodes[Root].mutex = t
    /\ \A t, u \in InsideOperation :
          t # u => FieldsWritten(th[t].op) \cap (FieldsRead(th[u].op) \cup FieldsWritten(th[u].op)) \cap GuardedFields = {}

-----------------------------------------------------------------------------
(* The moves a node's children stand for                                   *)

\* the moves of the materialized children, then those of the latent entries
\* at the indices from the materialized count on
ChildMoves(ns) ==
    [i \in 1..Len(ns[Root].expanded) |-> ns[ns[Root].expanded[i]].move]
        \o [i \in 1..(Len(ns[Root].child_scores) - Len(ns[Root].expanded)) |->
               ns[Root].child_scores[Len(ns[Root].expanded) + i][1]]

\* C31: each move installed by the expansion and not removed by
\* kill_superkos is represented exactly once among the children, as a
\* materialized child or as a latent entry behind the materialized ones;
\* each was legal at expansion; and uct_select_child, expand_all,
\* sort_root_children, randomize_first_proportionally (and the other root
\* operations) neither duplicate nor lose a move
C31_MovesRepresentedOnce ==
    /\ [](/\ Len(nodes[Root].expanded) <= Len(nodes[Root].child_scores)
          /\ Cardinality(SeqRange(ChildMoves(nodes))) = Len(ChildMoves(nodes))
          /\ SeqRange(ChildMoves(nodes)) \subseteq LegalMoves)
    /\ [][/\ (probe'.last.op = "create" /\ probe'.last.result = 1) => SeqRange(ChildMoves(nodes')) = LegalMoves
          /\ probe'.last.op = "kill_superkos" =>
                SeqRange(ChildMoves(nodes')) =
                    IF failed' = "none"
                    THEN {m \in SeqRange(ChildMoves(nodes)) : m = PASS \/ m \notin probe'.last.superko}
                    ELSE SeqRange(ChildMoves(nodes))
          /\ probe'.last.op \notin {"create", "kill_superkos"} =>
                SeqRange(ChildMoves(nodes')) = SeqRange(ChildMoves(nodes))]_vars

\* a root whose illegal move was left out and whose other moves are still
\* there after selection, sort and a swap by randomize_first_proportionally
C31_Witness ==
    /\ game.illegal = {2}
    /\ probe.last.op = "randomize_first_proportionally" /\ probe.last.result # 0
    /\ Len(nodes[Root].expanded) = 2
    /\ SeqRange(ChildMoves(nodes)) = {1, PASS}

-----------------------------------------------------------------------------
(* The first uct_select_child on a freshly expanded node                   *)

\* values of cfg_puct
PuctChoices == {Zero, One, RInt(2)}

FirstSelectInit ==
    /\ nodes = [x \in {Root} |-> NewNode(PASS, Zero, Zero)]
    /\ th = [t \in Threads |-> IdleThread]
    /\ game \in [passes : {0}, boardsize : {19}, cfg_puct : PuctChoices, priors : PrepPriors,
                 winrate : WinrateChoices, illegal : {{}, {2}}]
    /\ nodecount = 0
    /\ started = 0
    /\ ghost = [completed |-> 0, stopped |-> 0, evals |-> [x \in {Root} |-> 0],
                trues |-> [x \in {Root} |-> 0], leaf |-> [x \in {Root} |-> 0]]
    /\ failed = "none"
    /\ probe = [visits |-> 0, noise |-> 0, last |-> NoLast]

FirstSelectNext ==
    \/ PolicyCreate
    \/ \E superko \in Superkos : PolicyKill(superko)
    \/ \E color \in Colors : PolicySelect(color)

SpecFirstSelect == FirstSelectInit /\ [][FirstSelectNext]_vars

\* the call is the first uct_select_child on the node: it materializes the
\* first child
FirstSelection == nodes[Root].expanded = <<>> /\ Len(nodes'[Root].expanded) = 1

\* C33: on a freshly expanded node without noise the first uct_select_child
\* returns the child at index 0, which has the highest prior, for either
\* colour and every cfg_puct
C33_FirstSelectTakesHighestPrior ==
    [][FirstSelection =>
          /\ nodes'[nodes'[Root].expanded[1]].move = nodes[Root].child_scores[1][1]
          /\ nodes'[nodes'[Root].expanded[1]].score = nodes[Root].child_scores[1][2]
          /\ \A i \in 1..Len(nodes[Root].child_scores) :
                ~RLt(nodes'[nodes'[Root].expanded[1]].score, nodes[Root].child_scores[i][2])]_vars

\* a first selection among three children of different priors with
\* cfg_puct 2 and first-play eval 0
C33_Witness ==
    /\ Len(nodes[Root].expanded) = 1 /\ Len(nodes[Root].child_scores) = 3
    /\ game.cfg_puct = RInt(2) /\ game.winrate = Zero
    /\ RLt(nodes[Root].child_scores[2][2], nodes[Root].child_scores[1][2])
    /\ RLt(nodes[Root].child_scores[3][2], nodes[Root].child_scores[2][2])

-----------------------------------------------------------------------------
(* Virtual loss put on a node and taken off again                          *)

\* get_eval of node n for Black and for White
BothEvals(n) == <<node_get_eval(n, BLACK), node_get_eval(n, WHITE)>>

\* a node holding the statistics of a snapshot
NodeWith(s) ==
    [NewNode(PASS, s.score, s.init_eval) EXCEPT !.visits = s.visits, !.blackevals = s.blackevals,
                                                !.virtual_loss = s.virtual_loss]

VirtualLossInit ==
    /\ Fresh
    /\ game = StubGame
    /\ \E s \in Snapshots :
          /\ s.blackevals[1] <= s.visits
          /\ nodes = [x \in {Root} |-> NodeWith(s)]
          /\ probe = [entered |-> 0, left |-> 0, evals |-> <<BothEvals(NodeWith(s))>>]

\* enter_node(0, 0): a descent goes through the node
VirtualLossEnter ==
    /\ probe.entered < MaxEnters
    /\ nodes' = [nodes EXCEPT ![Root] = EnterBody(nodes[Root], 0, Zero)]
    /\ probe' = [probe EXCEPT !.entered = probe.entered + 1, !.evals = Append(probe.evals, BothEvals(nodes'[Root]))]
    /\ UNCHANGED <<th, game, nodecount, started, ghost, failed>>

\* leave_node(0, 0): the descent comes back without a result to add
VirtualLossLeave ==
    /\ probe.entered > 0 /\ probe.left < MaxEnters
    /\ nodes' = [nodes EXCEPT ![Root] = LeaveBody(nodes[Root], 0, Zero)]
    /\ probe' = [entered |-> probe.entered - 1, left |-> probe.left + 1, evals |-> Front(probe.evals)]
    /\ UNCHANGED <<th, game, nodecount, started, ghost, failed>>

VirtualLossNext == VirtualLossEnter \/ VirtualLossLeave

SpecVirtualLoss == VirtualLossInit /\ [][VirtualLossNext]_vars

\* C34: with 0 <= black_evals <= visits and virtual_loss >= 0, adding
\* VIRTUAL_LOSS_COUNT to the virtual loss never raises get_eval for Black or
\* for White, and taking it off again restores the value there was before
C34_VirtualLossNeverRaisesEval ==
    /\ BothEvals(nodes[Root]) = Last(probe.evals)
    /\ \A i \in 1..Len(probe.evals) - 1 :
          /\ ~RLt(probe.evals[i][1], probe.evals[i + 1][1])
          /\ ~RLt(probe.evals[i][2], probe.evals[i + 1][2])

\* a visited node entered twice whose evals for both sides fell each time
C34_Witness ==
    /\ probe.entered = 2 /\ probe.left > 0
    /\ nodes[Root].visits > 0 /\ nodes[Root].blackevals[1] > 0 /\ nodes[Root].blackevals[1] < nodes[Root].visits
    /\ RLt(probe.evals[3][1], probe.evals[2][1]) /\ RLt(probe.evals[2][1], probe.evals[1][1])
    /\ RLt(probe.evals[3][2], probe.evals[2][2]) /\ RLt(probe.evals[2][2], probe.evals[1][2])

-----------------------------------------------------------------------------
(* The eight symmetries of rotate_nn_idx                                   *)

\* the board index of the point mirrored in the diagonal: x and y exchanged
Transposed(vertex) == ((vertex % BoardSide) * BoardSide) + (vertex \div BoardSide)

\* the symmetries the two calls of get_scored_moves used
SymmetriesUsed == {probe.s, probe.t}

\* C35: for every symmetry s, rotate_nn_idx(., s) is a bijection of the board
\* indices onto themselves, two different symmetries give different
\* mappings, symmetry 0 is the identity, and for s >= 4 the result is that of
\* transposing first and then applying the flip of symmetry s - 4
C35_EightDistinctBijections ==
    probe.done =>
        /\ \A s \in SymmetriesUsed :
              /\ \A v \in Cells : rotate_nn_idx(v, s) \in Cells
              /\ \A v, w \in Cells : v # w => rotate_nn_idx(v, s) # rotate_nn_idx(w, s)
              /\ s = 0 => \A v \in Cells : rotate_nn_idx(v, s) = v
              /\ s >= 4 => \A v \in Cells : rotate_nn_idx(v, s) = rotate_nn_idx(Transposed(v), s - 4)
        /\ probe.s # probe.t => \E v \in Cells : rotate_nn_idx(v, probe.s) # rotate_nn_idx(v, probe.t)

\* the identity and a transposing symmetry with one flip were both used
C35_Witness == probe.done /\ probe.s = 0 /\ probe.t = 5

-----------------------------------------------------------------------------
(* The order in which the operations of UCTNode take node mutexes          *)

\* operations called in the mutex specification
MaxLockCalls == 3

\* a tree in the middle of a search: the root, its materialized children 1
\* and 2, and the materialized child 2 of child 1
TreeNodes == {Root, <<1>>, <<2>>, <<1, 2>>}

\* m_expanded of a node of the tree
TreeChildren(id) == IF id = Root THEN <<<<1>>, <<2>>>> ELSE IF id = <<1>> THEN <<<<1, 2>>>> ELSE <<>>

\* the operations that look at every materialized child under the mutex
\* once: get_visits / get_eval of the children
WalkingOperations == {"sort_root_children", "get_best_root_child", "randomize_first_proportionally"}

\* the operations that only touch the node itself
PlainOperations == {"enter_node", "leave_node", "get_stats", "kill_superkos", "dirichlet_noise"}

LockedOperations == {"uct_select_child", "create_children"} \cup WalkingOperations \cup PlainOperations

\* child->get_stats() for each materialized child in turn: the child's mutex
\* is taken and released
WalkChildren(id) ==
    LET kids == TreeChildren(id)
    IN  [i \in 1..2 * Len(kids) |-> IF i % 2 = 1 THEN <<"lock", kids[(i + 1) \div 2]>> ELSE <<"unlock", kids[i \div 2]>>]

\* leave_node taking the parent's mutex as well while it holds the node's
LockPlanUpward(op, id) ==
    IF op = "uct_select_child"
    THEN <<<<"lock", id>>>> \o WalkChildren(id) \o WalkChildren(id) \o <<<<"unlock", id>>>>
    ELSE IF op \in WalkingOperations
    THEN <<<<"lock", id>>>> \o WalkChildren(id) \o <<<<"unlock", id>>>>
    ELSE IF op = "create_children"
    THEN <<<<"lock", id>>, <<"unlock", id>>, <<"evaluate", id>>, <<"lock", id>>, <<"unlock", id>>>>
    ELSE IF op = "leave_node" /\ id # Root
    THEN <<<<"lock", id>>, <<"lock", Front(id)>>, <<"unlock", Front(id)>>, <<"unlock", id>>>>
    ELSE <<<<"lock", id>>, <<"unlock", id>>>>

\* the mutex operations an operation on node id performs, in order
LockPlan(op, id) ==
    IF op = "uct_select_child"
    THEN <<<<"lock", id>>>> \o WalkChildren(id) \o WalkChildren(id) \o <<<<"unlock", id>>>>
    ELSE IF op \in WalkingOperations
    THEN <<<<"lock", id>>>> \o WalkChildren(id) \o <<<<"unlock", id>>>>
    ELSE IF op = "create_children"
    THEN <<<<"lock", id>>, <<"unlock", id>>, <<"evaluate", id>>, <<"lock", id>>, <<"unlock", id>>>>
    ELSE <<<<"lock", id>>, <<"unlock", id>>>>

NoCaller == [pc |-> "idle", op |-> "none", node |-> Root, len |-> 0, plan |-> <<>>, held |-> <<>>]

MutexInit ==
    /\ nodes = [id \in TreeNodes |->
                  [NewNode(IF id = Root THEN PASS ELSE Last(id), Rat(1, 2), Zero) EXCEPT
                      !.expanded = TreeChildren(id),
                      !.has_children = TreeChildren(id) # <<>>,
                      !.is_expanding = TreeChildren(id) # <<>>]]
    /\ th = [t \in Threads |-> NoCaller]
    /\ game = StubGame
    /\ nodecount = 0
    /\ started = 0
    /\ ghost = [completed |-> 0, stopped |-> 0, evals |-> [x \in {Root} |-> 0],
                trues |-> [x \in {Root} |-> 0], leaf |-> [x \in {Root} |-> 0]]
    /\ failed = "none"
    /\ probe = [calls |-> 0]

\* how far a call goes through its mutex operations: create_children
\* returns before the lock when the node has children, right after its
\* locked section when the game is over or the node is taken, without
\* link_nodelist's section when no move is legal, or after linking; the
\* other operations always run to their end
PlanLengths(op, id) ==
    IF op # "create_children" THEN {Len(LockPlan(op, id))}
    ELSE IF nodes[id].has_children THEN {0}
    ELSE {2, 3, Len(LockPlan(op, id))}

\* a thread calls an operation on a node; the two root operations assert
\* that the node has children
CallLocked(t, op, id) ==
    /\ th[t].pc = "idle" /\ probe.calls < MaxLockCalls
    /\ op \in {"sort_root_children", "get_best_root_child"} => TreeChildren(id) # <<>>
    /\ \E len \in PlanLengths(op, id) :
          th' = [th EXCEPT ![t] = [pc |-> "running", op |-> op, node |-> id, len |-> len,
                                   plan |-> SubSeq(LockPlan(op, id), 1, len), held |-> <<>>]]
    /\ probe' = [probe EXCEPT !.calls = probe.calls + 1]
    /\ UNCHANGED <<nodes, game, nodecount, started, ghost, failed>>

\* LOCK(m_nodemutex, lock): the thread waits until the mutex is free
AcquireMutex(t) ==
    /\ th[t].pc = "running" /\ th[t].plan # <<>> /\ Head(th[t].plan)[1] = "lock"
    /\ nodes[Head(th[t].plan)[2]].mutex = NoThread
    /\ nodes' = [nodes EXCEPT ![Head(th[t].plan)[2]].mutex = t]
    /\ th' = [th EXCEPT ![t].plan = Tail(th[t].plan), ![t].held = Append(th[t].held, Head(th[t].plan)[2])]
    /\ UNCHANGED <<game, nodecount, started, ghost, failed, probe>>

\* the lock goes out of scope or lock.unlock() is called
ReleaseMutex(t) ==
    /\ th[t].pc = "running" /\ th[t].plan # <<>> /\ Head(th[t].plan)[1] = "unlock"
    /\ nodes' = [nodes EXCEPT ![Head(th[t].plan)[2]].mutex = NoThread]
    /\ th' = [th EXCEPT ![t].plan = Tail(th[t].plan),
                        ![t].held = SelectSeq(th[t].held, LAMBDA id : id # Head(th[t].plan)[2])]
    /\ UNCHANGED <<game, nodecount, started, ghost, failed, probe>>

\* Network::get_scored_moves returns to create_children
EvaluatorReturns(t) ==
    /\ th[t].pc = "running" /\ th[t].plan # <<>> /\ Head(th[t].plan)[1] = "evaluate"
    /\ th' = [th EXCEPT ![t].plan = Tail(th[t].plan)]
    /\ UNCHANGED <<nodes, game, nodecount, started, ghost, failed, probe>>

\* the operation returns
ReturnLocked(t) ==
    /\ th[t].pc = "running" /\ th[t].plan = <<>>
    /\ th' = [th EXCEPT ![t] = NoCaller]
    /\ UNCHANGED <<nodes, game, nodecount, started, ghost, failed, probe>>

\* a step of the operation thread t is in
MutexStep(t) == AcquireMutex(t) \/ ReleaseMutex(t) \/ EvaluatorReturns(t) \/ ReturnLocked(t)

MutexNext ==
    \/ \E t \in Threads, op \in LockedOperations, id \in TreeNodes : CallLocked(t, op, id)
    \/ \E t \in Threads : AcquireMutex(t)
    \/ \E t \in Threads : ReleaseMutex(t)
    \/ \E t \in Threads : EvaluatorReturns(t)
    \/ \E t \in Threads : ReturnLocked(t)

\* every thread inside an operation goes on when it can: the scheduler runs
\* it, a free mutex is taken, the evaluator returns
SpecMutex == MutexInit /\ [][MutexNext]_vars /\ \A t \in Threads : WF_vars(MutexStep(t))

\* C32: a thread holds at most a node's mutex and the mutex of one of its
\* direct children, taken parent first; no operation waits for a mutex it
\* holds; and every operation that was called returns
C32_NoDeadlock ==
    /\ [](\A t \in Threads :
             /\ Len(th[t].held) <= 2
             /\ Len(th[t].held) = 2 => (th[t].held[2] # Root /\ Front(th[t].held[2]) = th[t].held[1])
             /\ \A id \in TreeNodes : nodes[id].mutex = t <=> id \in SeqRange(th[t].held)
             /\ (th[t].plan # <<>> /\ Head(th[t].plan)[1] = "lock") => Head(th[t].plan)[2] \notin SeqRange(th[t].held))
    /\ \A t \in Threads : (th[t].pc = "running") ~> (th[t].pc = "idle")

\* two threads each hold a node and one of its children at the same time,
\* one of them the node the other one's operation has to look at next
C32_Witness ==
    /\ th["t1"].held = <<Root, <<2>>>> /\ th["t1"].op = "uct_select_child"
    /\ th["t2"].held = <<<<1>>, <<1, 2>>>> /\ th["t2"].op = "sort_root_children"
    /\ Len(th["t1"].plan) > 4

-----------------------------------------------------------------------------
(* Game: the self-play controller talking GTP to the engine                *)

\* moves recorded in the controller specification
MaxRecorded == 3

\* 19 * 19 * 2 on a board of side BoardSide
MoveLimit == BoardSide * BoardSide * 2

\* a line of text is the sequence of its words; an empty word stands for
\* additional white space
LowerCase(w) ==
    IF w \in {"pass", "PASS", "Pass"} THEN "pass"
    ELSE IF w \in {"resign", "RESIGN", "Resign"} THEN "resign"
    ELSE IF w \in {"black", "BLACK", "Black"} THEN "black"
    ELSE IF w \in {"white", "WHITE"} THEN "white"
    ELSE IF w \in {"Q16", "q16"} THEN "q16"
    ELSE w

\* QString::simplified: white space at the ends removed, inner white space
\* collapsed
Simplified(text) == SelectSeq(text, LAMBDA w : w # "")

\* QString::compare(word, Qt::CaseInsensitive) == 0
CompareCaseInsensitive(text, word) ==
    IF Len(text) # 1 THEN FALSE ELSE LowerCase(text[1]) = LowerCase(word)

\* the lines the engine answers with; <<>> is no line at all
Replies ==
    { <<>>, <<"?", "unknown">>, <<"=", "pass">>, <<"=", "PASS", "">>, <<"=", "resign">>, <<"=", "Q16">> }

\* the commands given to setMove: "play <color> <move>"
PlayCommands ==
    { <<"play", color, move>> : color \in {"BLACK", "white"}, move \in {"Pass", "resign", "q16"} }

\* Game::sendGtpCommand: the text behind "= " and true, or false when the
\* process died, nothing was read or the line does not start with '='
sendGtpCommand(reply, alive) ==
    IF ~alive THEN <<<<>>, FALSE>>
    ELSE IF Len(reply) = 0 THEN <<<<>>, FALSE>>
    ELSE IF reply[1] # "=" THEN <<<<>>, FALSE>>
    ELSE <<Tail(reply), TRUE>>

\* Game::Game
NewGame ==
    [ m_resignation |-> FALSE, m_blackToMove |-> TRUE, m_blackResigned |-> FALSE,
      m_passes |-> 0, m_moveNum |-> 0, m_moveDone |-> <<>> ]

\* checkGameEnd testing m_moveNum >= 19 * 19 * 2
checkGameEndAtLimit(g) == g.m_resignation \/ g.m_passes > 1 \/ g.m_moveNum >= MoveLimit

\* Game::checkGameEnd
checkGameEnd(g) == g.m_resignation \/ g.m_passes > 1 \/ g.m_moveNum > MoveLimit

\* the genmove command Game::move sends
MoveCmd(g) == IF g.m_blackToMove THEN <<"genmove", "b">> ELSE <<"genmove", "w">>

\* Game::move counting the move only once the engine has answered
MoveBodyCountingAnswers(g, res) ==
    IF ~res[2] THEN g
    ELSE LET moveDone == Simplified(res[1])
             g2 == [g EXCEPT !.m_moveNum = @ + 1, !.m_moveDone = moveDone]
         IN  IF CompareCaseInsensitive(moveDone, "pass")
             THEN [g2 EXCEPT !.m_passes = @ + 1]
             ELSE IF CompareCaseInsensitive(moveDone, "resign")
             THEN [g2 EXCEPT !.m_resignation = TRUE, !.m_blackResigned = g.m_blackToMove]
             ELSE [g2 EXCEPT !.m_passes = 0]

\* Game::move, res being what sendGtpCommand returned
MoveBody(g, res) ==
    LET g1 == [g EXCEPT !.m_moveNum = @ + 1]
    IN  IF ~res[2] THEN g1
        ELSE LET moveDone == Simplified(res[1])
                 g2 == [g1 EXCEPT !.m_moveDone = moveDone]
             IN  IF CompareCaseInsensitive(moveDone, "pass")
                 THEN [g2 EXCEPT !.m_passes = @ + 1]
                 ELSE IF CompareCaseInsensitive(moveDone, "resign")
                 THEN [g2 EXCEPT !.m_resignation = TRUE, !.m_blackResigned = g.m_blackToMove]
                 ELSE [g2 EXCEPT !.m_passes = 0]

\* Game::setMove(m), moves being m.split(" ")
SetMoveBody(g, moves, res) ==
    IF ~res[2] THEN g
    ELSE LET g1 == [g EXCEPT !.m_moveNum = @ + 1, !.m_blackToMove = ~g.m_blackToMove]
         IN  IF CompareCaseInsensitive(<<moves[3]>>, "pass")
             THEN [g1 EXCEPT !.m_passes = @ + 1]
             ELSE IF CompareCaseInsensitive(<<moves[3]>>, "resign")
             THEN [g1 EXCEPT !.m_resignation = TRUE,
                             !.m_blackResigned = CompareCaseInsensitive(<<moves[2]>>, "black")]
             ELSE [g1 EXCEPT !.m_passes = 0]

\* Game::nextMove
NextMoveBody(g) == IF checkGameEnd(g) THEN g ELSE [g EXCEPT !.m_blackToMove = ~g.m_blackToMove]

\* what a move text is in the record of the game
RecordedKind(text) ==
    IF Simplified(text) \in {<<"pass">>, <<"PASS">>, <<"Pass">>} THEN "pass"
    ELSE IF Simplified(text) \in {<<"resign">>, <<"RESIGN">>, <<"Resign">>} THEN "resign"
    ELSE "move"

GameInit ==
    /\ Fresh
    /\ nodes = [x \in {Root} |-> NewNode(PASS, Rat(1, 2), Zero)]
    /\ game = NewGame
    /\ probe = [moves |-> <<>>, last |-> [op |-> "none", ok |-> TRUE]]

\* the moves made so far, with one more when the command got through
Recorded(res, text) == IF res[2] THEN Append(probe.moves, RecordedKind(text)) ELSE probe.moves

\* game.move() with the engine's answer
GameMove(reply, alive) ==
    /\ game.m_moveNum <= MoveLimit + 1
    /\ LET res == sendGtpCommand(reply, alive)
       IN  /\ res[2] => Len(probe.moves) < MaxRecorded
           /\ game' = MoveBody(game, res)
           /\ probe' = [moves |-> Recorded(res, res[1]), last |-> [op |-> "move", ok |-> res[2]]]
    /\ UNCHANGED <<nodes, th, nodecount, started, ghost, failed>>

\* game.setMove(m) with the engine's answer
GameSetMove(m, reply, alive) ==
    /\ game.m_moveNum <= MoveLimit + 1
    /\ LET res == sendGtpCommand(reply, alive)
       IN  /\ res[2] => Len(probe.moves) < MaxRecorded
           /\ game' = SetMoveBody(game, m, res)
           /\ probe' = [moves |-> Recorded(res, <<m[3]>>), last |-> [op |-> "setMove", ok |-> res[2]]]
    /\ UNCHANGED <<nodes, th, nodecount, started, ghost, failed>>

\* game.nextMove()
GameNextMove ==
    /\ game' = NextMoveBody(game)
    /\ probe' = [probe EXCEPT !.last = [op |-> "nextMove", ok |-> ~checkGameEnd(game)]]
    /\ UNCHANGED <<nodes, th, nodecount, started, ghost, failed>>

GameNext ==
    \/ \E reply \in Replies, alive \in BOOLEAN : GameMove(reply, alive)
    \/ \E m \in PlayCommands, reply \in {<<"?", "illegal">>, <<"=">>}, alive \in BOOLEAN : GameSetMove(m, reply, alive)
    \/ GameNextMove

SpecGame == GameInit /\ [][GameNext]_vars

RECURSIVE PassesAtEnd(_)
\* the passes at the end of a record; a resignation is no move of the
\* board and is passed over
PassesAtEnd(moves) ==
    IF moves = <<>> THEN 0
    ELSE IF Last(moves) = "pass" THEN 1 + PassesAtEnd(Front(moves))
    ELSE IF Last(moves) = "resign" THEN PassesAtEnd(Front(moves))
    ELSE 0

\* C36: m_passes is the number of consecutive passes at the end of the
\* recorded moves, a move that is neither pass nor resign resetting it;
\* nextMove reports the end exactly when a resignation was recorded,
\* m_passes > 1 or m_moveNum > 19 * 19 * 2, and then leaves the side to
\* move alone
C36_PassesAndGameEnd ==
    /\ [](/\ game.m_passes = PassesAtEnd(probe.moves)
          /\ game.m_resignation <=> "resign" \in SeqRange(probe.moves))
    /\ [][probe'.last.op = "nextMove" =>
            /\ ~probe'.last.ok <=> ("resign" \in SeqRange(probe.moves) \/ game.m_passes > 1 \/ game.m_moveNum > MoveLimit)
            /\ ~probe'.last.ok => game' = game
            /\ probe'.last.ok => game' = [game EXCEPT !.m_blackToMove = ~game.m_blackToMove]
            /\ probe'.moves = probe.moves]_vars

\* nextMove has reported the end after two passes, the second one spelled
\* in capitals, with no resignation and the move limit not reached
C36_Witness ==
    /\ probe.last = [op |-> "nextMove", ok |-> FALSE]
    /\ probe.moves = <<"move", "pass", "pass">> /\ game.m_moveDone = <<"PASS">>
    /\ game.m_passes = 2 /\ ~game.m_resignation /\ game.m_moveNum <= MoveLimit

\* C38: a move or setMove call whose command failed returns false and
\* leaves m_moveNum, m_passes, m_resignation and m_blackToMove as they were
C38_FailedCommandLeavesState ==
    [][(probe'.last.op \in {"move", "setMove"} /\ ~probe'.last.ok) =>
          /\ game'.m_moveNum = game.m_moveNum
          /\ game'.m_passes = game.m_passes
          /\ game'.m_resignation = game.m_resignation
          /\ game'.m_blackToMove = game.m_blackToMove]_vars

-----------------------------------------------------------------------------
(* The self-play loop: do { ...; game.move(); } while (game.nextMove());   *)

SelfPlayInit ==
    /\ Fresh
    /\ nodes = [x \in {Root} |-> NewNode(PASS, Rat(1, 2), Zero)]
    /\ game = NewGame
    /\ probe = [pc |-> "move", calls |-> 0, sent |-> <<>>]

\* game.move(); its result is not looked at
LoopMove(reply, alive) ==
    /\ probe.pc = "move"
    /\ game' = MoveBody(game, sendGtpCommand(reply, alive))
    /\ probe' = [pc |-> "nextMove", calls |-> probe.calls + 1, sent |-> Append(probe.sent, MoveCmd(game)[2])]
    /\ UNCHANGED <<nodes, th, nodecount, started, ghost, failed>>

\* while (game.nextMove())
LoopNextMove ==
    /\ probe.pc = "nextMove"
    /\ game' = NextMoveBody(game)
    /\ probe' = [probe EXCEPT !.pc = IF checkGameEnd(game) THEN "done" ELSE "move"]
    /\ UNCHANGED <<nodes, th, nodecount, started, ghost, failed>>

SelfPlayNext ==
    \/ \E reply \in Replies, alive \in BOOLEAN : LoopMove(reply, alive)
    \/ LoopNextMove

\* the thread running the loop goes on as long as the loop has a step
SpecSelfPlay == SelfPlayInit /\ [][SelfPlayNext]_vars /\ WF_vars(SelfPlayNext)

\* C37: the loop ends, after at most 19 * 19 * 2 + 1 calls of move, and the
\* genmove commands it sends alternate between the colours, black first
C37_SelfPlayTerminates ==
    /\ [](/\ probe.calls <= MoveLimit + 1
          /\ \A i \in 1..Len(probe.sent) : probe.sent[i] = (IF i % 2 = 1 THEN "b" ELSE "w"))
    /\ <>(probe.pc = "done")

\* the loop has ended after 19 * 19 * 2 + 1 calls of move none of whose
\* commands the engine answered
C37_Witness ==
    /\ probe.pc = "done" /\ probe.calls = MoveLimit + 1
    /\ game.m_moveDone = <<>> /\ game.m_passes = 0 /\ ~game.m_resignation

=============================================================================
